---- MODULE Spec2Model ----
(***************************************************************************)
(* Verification model of the Learning Mode core of Cory: the reference     *)
(* landmark hook (fetch + timeline synchronizer), the webcam hook, and the *)
(* pose comparator with its score aggregator.                              *)
(*                                                                         *)
(* Number representation.  Times are integers in tenths of a second.       *)
(* Keypoint coordinates and confidences are integers in hundredths         *)
(* (x = 50 is 0.5, score = 30 is 0.3).  Scores are integers in tenths of a *)
(* point (1000 is the score 100.0).                                        *)
(***************************************************************************)
EXTENDS Integers, Sequences, FiniteSets, Bags, TLC

\* ---------------------------------------------------------------- bounds
NumProjects == 2       \* project ids 1..NumProjects (0 is "no project")
MaxTime     == 2       \* playback times 0..MaxTime
MaxRaf      == 3       \* animation-frame handles that can be in use at once
MaxFetches  == 2       \* landmark requests in flight at the same time
MaxFrames   == 3       \* frames of an arbitrary landmark track
MaxMounts   == 3       \* runs of the webcam init effect (getUserMedia calls)
MaxTicks    == 3       \* comparisons counted between two statistics resets
SmallLimit  == 2       \* a configured historyLimit

VARIABLES
  \* useReferencePoseLandmarks: props
  projectId, isActive, videoElement, hookMounted,
  \* useReferencePoseLandmarks: state
  allLandmarks, currentPose, loading, error,
  \* fetchLandmarks invocations whose promise has not settled yet
  fetches,
  \* the synchronizer loop: the closure variable animationFrameId of the
  \* current effect instance (0: not set) and the browser's table of
  \* scheduled animation-frame callbacks
  animationFrameId, rafQueue,
  \* the reference video's playback clock
  currentTime,
  \* observation of the last step: whether syncPose ran in it, for a loop
  \* whose effect instance is current, and the frame it selected
  lastTick,
  \* useWebcam: state, the webcamStream value the init effect's cleanup
  \* closure captured, the getUserMedia calls made so far (one per run of
  \* the init effect) and the streams whose tracks are live
  camMounted, webcamStream, isWebcamActive, cleanupStream, camRequests,
  liveStreams,
  \* how many times learning mode has been entered (each entry is a new
  \* instance of the hook)
  camInstance,
  \* the main and the PIP webcam video element: whether it is in the DOM
  \* and its srcObject (0: none)
  mainEl, pipEl,
  \* calls of the pose comparator: the two arguments and the results of
  \* the last calculatePoseSimilarity and compareJointAngles calls
  livePoseKeypoints, referencePoseKeypoints, similarity, angleResult,
  \* usePoseComparison: props, options and state (statistics is also the
  \* object statsRef.current refers to)
  livePose, referencePose, options, comparisonResult, angleComparison,
  feedback, statistics,
  \* observation: the combinedScore of every comparison the effect has made
  \* since the statistics were last reset, in order
  scoreLog,
  \* ProjectView: state, and the playback position of the editor's
  \* reference video (the element exists while the editor is rendered and
  \* the video has loaded)
  isLearningMode, currentClipId, isLoading, editorTime,
  \* useViewMode: state of the mounted LearningMode
  viewMode, isSwitched, overlayOpacity,
  \* the keydown listeners of learning mode registered on document, each
  \* the closure of one run of the useKeyboardShortcuts effect
  keyListeners,
  \* observations: the input handled by the last step, the number of
  \* onExit calls made in it, and the clip that was selected when
  \* learning mode was last entered
  lastInput, exitCalls, practiceClip,
  \* PipView: state, the resize ref and the value of aspectRatioRef
  \* and aspectInitializedRef
  pipSize, resizeState, aspectRatio, aspectInitialized,
  \* the browser window (innerWidth, innerHeight)
  windowSize,
  \* observation: the offsets and the scale of the last mousemove of a
  \* resize
  lastMove,
  \* useMediaPipePose: whether the hook is mounted, the progress of
  \* initializePose, state and refs (poseRef: whether it holds an estimator,
  \* animationFrameRef: the id of the loop whose scheduled callback it names,
  \* 0 when it names none that is still scheduled)
  mpMounted, initPose, isInitialized, poseRef, hasErrored, animationFrameRef,
  \* the frame-processing loops that are alive, each waiting for
  \* video.play(), for its animation frame or for send() of the estimator
  loops,
  \* observations: what the last step did with a frame, and whether a send()
  \* call has thrown
  lastFrame, sendThrew,
  \* ProjectView init effect: the closure variable cancelled, the loop
  \* counter attempt of waitForLandmarks, where init() stands, and the state
  \* isProcessingLandmarks, landmarks (whether set) and isLoading of that page
  cancelled, attempt, initPhase, isProcessingLandmarks, landmarks, pageIsLoading,
  \* observations: the landmark requests sent, and whether one was sent
  \* after the effect had been cancelled
  requestsSent, sentAfterCancel,
  \* the clip editor of ProjectView (Library.jsx): the module-level counter
  \* nextClipId, the state clips (a map from clip id to row, start, end),
  \* resizing, currentClipId (here editorClipId), currentClipBeingDraggedId
  \* (a string, kept as its sequence of characters) and isDragging
  nextClipId, clips, resizing, editorClipId, currentClipBeingDraggedId, isDragging,
  \* what the mousemove listener of the running drag closes over (clips and
  \* currentClipBeingDraggedId of the render that started it) and the
  \* dragInit* refs
  dragClosure, dragInit,
  \* observations: the last editor operation, the id last passed to
  \* handleResize and still in currentClipBeingDraggedId, and the number of
  \* operations counted so far
  lastClipOp, resizeTarget, ops

hookVars == <<projectId, isActive, videoElement, hookMounted, allLandmarks,
              currentPose, loading, error, fetches, animationFrameId,
              rafQueue, currentTime, lastTick>>

camVars == <<camMounted, webcamStream, isWebcamActive, cleanupStream,
             camRequests, liveStreams, camInstance, mainEl, pipEl>>

poseVars == <<livePoseKeypoints, referencePoseKeypoints, similarity,
              angleResult>>

cmpVars == <<livePose, referencePose, options, comparisonResult,
             angleComparison, feedback, statistics, scoreLog>>

viewVars == <<isLearningMode, currentClipId, isLoading, editorTime, viewMode,
              isSwitched, overlayOpacity, keyListeners, lastInput,
              exitCalls, practiceClip>>

pipVars == <<pipSize, resizeState, aspectRatio, aspectInitialized,
             windowSize, lastMove>>

loopVars == <<mpMounted, initPose, isInitialized, poseRef, hasErrored,
              animationFrameRef, loops, lastFrame, sendThrew>>

waitVars == <<cancelled, attempt, initPhase, isProcessingLandmarks, landmarks,
              pageIsLoading, requestsSent, sentAfterCancel>>

clipVars == <<nextClipId, clips, resizing, editorClipId,
              currentClipBeingDraggedId, isDragging, dragClosure, dragInit,
              lastClipOp, resizeTarget, ops>>

vars == <<hookVars, camVars, poseVars, cmpVars, viewVars, pipVars, loopVars,
          waitVars, clipVars>>

notHookVars == <<camVars, poseVars, cmpVars, viewVars, pipVars, loopVars,
                 waitVars, clipVars>>
notCamVars == <<hookVars, poseVars, cmpVars, viewVars, pipVars, loopVars,
                waitVars, clipVars>>
notPoseVars == <<hookVars, camVars, cmpVars, viewVars, pipVars, loopVars,
                 waitVars, clipVars>>
notCmpVars == <<hookVars, camVars, poseVars, viewVars, pipVars, loopVars,
                waitVars, clipVars>>
notViewVars == <<hookVars, camVars, poseVars, cmpVars, pipVars, loopVars,
                 waitVars, clipVars>>
notPipVars == <<hookVars, camVars, poseVars, cmpVars, viewVars, loopVars,
                waitVars, clipVars>>
notLoopVars == <<hookVars, camVars, poseVars, cmpVars, viewVars, pipVars,
                 waitVars, clipVars>>
notWaitVars == <<hookVars, camVars, poseVars, cmpVars, viewVars, pipVars,
                 loopVars, clipVars>>
notClipVars == <<hookVars, camVars, poseVars, cmpVars, viewVars, pipVars,
                 loopVars, waitVars>>

\* ------------------------------------------------------------ data model
Abs(x) == IF x < 0 THEN -x ELSE x

Projects == 1..NumProjects
Times    == 0..MaxTime

\* A frame of the landmarks endpoint: frame index, timestamp and whether
\* the frame carries a landmarks array (a frame with no detected pose has
\* none).
Frame(i, t, has) == [frame |-> i, time |-> t, landmarks |-> has]

\* The track the landmark service holds for a project.  Odd projects have
\* frames at 0, 2, 4 (so odd times are ties), even projects have an empty
\* track.
ServerTrack(p) ==
  IF p % 2 = 1
  THEN << Frame(0, 0, TRUE), Frame(1, 2, TRUE), Frame(2, 4, TRUE) >>
  ELSE << >>

\* Values of the allLandmarks state.  status 0 is the initial null; a
\* parsed response body is tagged with the status and the project of the
\* response it came from.  The body of a 202 carries no frames.
NullTrack == [status |-> 0, project |-> 0, frames |-> << >>]
Body(status, p) ==
  [status |-> status, project |-> p,
   frames |-> IF status = 200 THEN ServerTrack(p) ELSE << >>]

NullPose == [set |-> FALSE, frame |-> 0, time |-> 0, project |-> 0]

\* ------------------------------------------------- syncPose (lines 86-116)
\* The linear scan of syncPose: index of the closest frame of `frames` to
\* time t, 0 when there is none.  best = 0 stands for closestFrame = null
\* with minTimeDiff = Infinity; a frame replaces the best one only when its
\* difference is strictly smaller.
RECURSIVE ClosestScan(_, _, _, _)
ClosestScanLastWins(frames, t, i, best) ==
  IF i > Len(frames) THEN best
  ELSE IF best = 0 \/ Abs(frames[i].time - t) <= Abs(frames[best].time - t)
       THEN ClosestScan(frames, t, i + 1, i)
       ELSE ClosestScan(frames, t, i + 1, best)

ClosestScan(frames, t, i, best) ==
  IF i > Len(frames) THEN best
  ELSE IF best = 0 \/ Abs(frames[i].time - t) < Abs(frames[best].time - t)
       THEN ClosestScan(frames, t, i + 1, i)
       ELSE ClosestScan(frames, t, i + 1, best)

ClosestFrame(frames, t) == ClosestScan(frames, t, 1, 0)

\* The value of currentPose after one syncPose over the track lm at time t:
\* set from the closest frame when there is one and it has landmarks,
\* otherwise left as it was.
SyncPose(lm, t, pose) ==
  LET c == ClosestFrame(lm.frames, t)
  IN IF c # 0 /\ lm.frames[c].landmarks
     THEN [set |-> TRUE, frame |-> lm.frames[c].frame,
           time |-> lm.frames[c].time, project |-> lm.project]
     ELSE pose

\* ------------------------------------- the sync effect (lines 68-134)
\* A scheduled animation-frame callback: its handle, whether the effect
\* instance (loop) that scheduled it is still the current one, and the
\* track its closure captured.
Callback(id, live, lm) == [id |-> id, live |-> live, lm |-> lm]

NoTick == [ran |-> FALSE, live |-> TRUE, sel |-> 0]

\* requestAnimationFrame returns a handle no scheduled callback has and
\* that differs from the one being run; handle values carry no other
\* meaning, so the smallest such value stands for it.
FreeHandles == (1..MaxRaf) \ ({c.id : c \in rafQueue} \cup {animationFrameId})

NewHandle == CHOOSE h \in FreeHandles : \A g \in FreeHandles : h <= g

\* cancelAnimationFrame(h): the callback with handle h leaves the table.
CancelKeepsCallback(queue, h) == queue

CancelAnimationFrame(queue, h) == {c \in queue : c.id # h}

\* The callbacks of a loop whose effect instance is over.
Stale(queue) == {[c EXCEPT !.live = FALSE] : c \in queue}

\* The cleanup returned by the effect (lines 129-133), applied to the
\* browser's table: cancels the handle in animationFrameId, if any.
SyncCleanup == IF animationFrameId # 0
               THEN Stale(CancelAnimationFrame(rafQueue, animationFrameId))
               ELSE Stale(rafQueue)

\* The sync effect re-runs (one of allLandmarks, videoElement, isActive
\* changed): cleanup of the previous instance, then the body with the new
\* values lm, ve, act.  The body returns early unless all three are set;
\* otherwise it calls continuousSync once: syncPose, then
\* requestAnimationFrame.
SyncEffect(lm, ve, act) ==
  IF lm.status # 0 /\ ve /\ act
  THEN /\ FreeHandles # {}
       /\ currentPose' = SyncPose(lm, currentTime, currentPose)
       /\ animationFrameId' = NewHandle
       /\ rafQueue' = SyncCleanup \cup {Callback(NewHandle, TRUE, lm)}
       /\ lastTick' = [ran |-> TRUE, live |-> TRUE,
                       sel |-> ClosestFrame(lm.frames, currentTime)]
  ELSE /\ currentPose' = currentPose
       /\ animationFrameId' = 0
       /\ rafQueue' = SyncCleanup
       /\ lastTick' = NoTick

SyncUnchanged ==
  /\ UNCHANGED <<currentPose, animationFrameId, rafQueue>>
  /\ lastTick' = NoTick

\* ------------------------------------ the fetch effect (lines 18-65)
\* A fetchLandmarks invocation in flight: the project it asks for and
\* whether the effect run that started it is over (torn down).  Several
\* equal invocations can be in flight, so they are kept in a bag.
Request(p, torn) == [project |-> p, torn |-> torn]

InFlight == BagToSet(fetches)

One(f) == SetToBag({f})

RECURSIVE TornBag(_, _)
TornBag(fs, todo) ==
  IF todo = {} THEN EmptyBag
  ELSE LET f == CHOOSE g \in todo : TRUE
           n == CopiesIn(f, fs) + CopiesIn([f EXCEPT !.torn = ~f.torn], fs)
       IN [g \in {Request(f.project, TRUE)} |-> n]
          (+) TornBag(fs, todo \ {f, [f EXCEPT !.torn = ~f.torn]})

\* Every invocation in flight belongs to an effect run that is over.
Torn(fs) == TornBag(fs, BagToSet(fs))

\* The fetch effect re-runs with the new props p, act.  It has no cleanup:
\* requests already in flight stay in flight.  The body returns early
\* without a project or when inactive; otherwise fetchLandmarks starts:
\* setLoading(true) and the request goes out.
FetchEffect(p, act) ==
  IF p # 0 /\ act
  THEN /\ BagCardinality(fetches) < MaxFetches
       /\ loading' = TRUE
       /\ fetches' = Torn(fetches) (+) One(Request(p, FALSE))
  ELSE /\ loading' = loading
       /\ fetches' = Torn(fetches)

\* The projectId prop changes.
SetProjectId(p) ==
  /\ hookMounted /\ p # projectId
  /\ projectId' = p
  /\ FetchEffect(p, isActive)
  /\ SyncUnchanged
  /\ UNCHANGED <<isActive, videoElement, hookMounted, allLandmarks, error,
                 currentTime>>

\* The isActive prop changes: both effects depend on it.
SetIsActive(act) ==
  /\ hookMounted /\ act # isActive
  /\ isActive' = act
  /\ FetchEffect(projectId, act)
  /\ SyncEffect(allLandmarks, videoElement, act)
  /\ UNCHANGED <<projectId, videoElement, hookMounted, allLandmarks, error,
                 currentTime>>

\* The video element passed to the hook appears or goes away.
SetVideoElement(ve) ==
  /\ hookMounted /\ ve # videoElement
  /\ videoElement' = ve
  /\ SyncEffect(allLandmarks, ve, isActive)
  /\ UNCHANGED <<projectId, isActive, hookMounted, allLandmarks, loading,
                 error, fetches, currentTime>>

\* The outcomes of the request of fetchLandmarks (line 40): a response
\* with a status, or a rejected promise (network error).
Statuses == {200, 202, 500}

\* response.ok: the status is in 200..299.
ResponseOk(status) == status >= 200 /\ status <= 299

\* The state writes of a settling fetchLandmarks reach the hook's state
\* only while the component is mounted.
HookWrites(lm, err, ld) ==
  IF hookMounted
  THEN allLandmarks' = lm /\ error' = err /\ loading' = ld
  ELSE UNCHANGED <<allLandmarks, error, loading>>

\* The request of f is rejected (network error), or reading the body
\* throws: the catch block sets error to the exception's message, finally
\* clears loading.
FetchThrows(f) ==
  /\ f \in InFlight
  /\ fetches' = fetches (-) One(f)
  /\ HookWrites(allLandmarks, "network", FALSE)
  /\ SyncUnchanged
  /\ UNCHANGED <<projectId, isActive, videoElement, hookMounted, currentTime>>

\* The request of f is answered with a status and the body has been read
\* (lines 40-55; no state is written between the two awaits).  On
\* response.ok the parsed body becomes allLandmarks and error is cleared,
\* otherwise error is set; finally clears loading.  A new allLandmarks
\* value re-runs the sync effect.
FetchSettles(f, status) ==
  /\ f \in InFlight
  /\ fetches' = fetches (-) One(f)
  /\ IF ResponseOk(status)
     THEN /\ HookWrites(Body(status, f.project), "null", FALSE)
          /\ IF hookMounted
             THEN SyncEffect(Body(status, f.project), videoElement, isActive)
             ELSE SyncUnchanged
     ELSE /\ HookWrites(allLandmarks, "http", FALSE)
          /\ SyncUnchanged
  /\ UNCHANGED <<projectId, isActive, videoElement, hookMounted, currentTime>>

\* The browser runs the scheduled callback c (continuousSync, lines
\* 121-124): syncPose over the track of c's closure at the video's current
\* time, then the next frame is requested and its handle stored in the
\* closure's animationFrameId.
Tick(c) ==
  /\ c \in rafQueue /\ FreeHandles # {}
  /\ currentPose' = IF hookMounted THEN SyncPose(c.lm, currentTime, currentPose)
                    ELSE currentPose
  /\ rafQueue' = (rafQueue \ {c}) \cup {Callback(NewHandle, c.live, c.lm)}
  /\ animationFrameId' = IF c.live THEN NewHandle ELSE animationFrameId
  /\ lastTick' = [ran |-> TRUE, live |-> c.live,
                  sel |-> ClosestFrame(c.lm.frames, currentTime)]
  /\ UNCHANGED <<projectId, isActive, videoElement, hookMounted, allLandmarks,
                 loading, error, fetches, currentTime>>

\* Playback moves the reference video's clock.
AdvanceVideo(t) ==
  /\ videoElement /\ t # currentTime
  /\ currentTime' = t
  /\ lastTick' = NoTick
  /\ UNCHANGED <<projectId, isActive, videoElement, hookMounted, allLandmarks,
                 currentPose, loading, error, fetches, animationFrameId,
                 rafQueue>>

\* The consuming view unmounts: the sync effect's cleanup runs; the fetch
\* effect has none.
Unmount ==
  /\ hookMounted
  /\ hookMounted' = FALSE
  /\ rafQueue' = SyncCleanup
  /\ animationFrameId' = 0
  /\ fetches' = Torn(fetches)
  /\ lastTick' = NoTick
  /\ UNCHANGED <<projectId, isActive, videoElement, allLandmarks, currentPose,
                 loading, error, currentTime>>

\* The hook right after its first render without a project: the useState
\* initial values, no request, no loop.
HookInit ==
  /\ projectId = 0 /\ isActive = TRUE /\ videoElement = FALSE
  /\ hookMounted = TRUE
  /\ allLandmarks = NullTrack /\ currentPose = NullPose
  /\ loading = FALSE /\ error = "null"
  /\ fetches = EmptyBag
  /\ animationFrameId = 0 /\ rafQueue = {}
  /\ currentTime = 0
  /\ lastTick = NoTick

HookNext ==
  \/ \E p \in 0..NumProjects : SetProjectId(p) /\ UNCHANGED notHookVars
  \/ \E act \in BOOLEAN : SetIsActive(act) /\ UNCHANGED notHookVars
  \/ \E ve \in BOOLEAN : SetVideoElement(ve) /\ UNCHANGED notHookVars
  \/ \E f \in InFlight, st \in Statuses :
       FetchSettles(f, st) /\ UNCHANGED notHookVars
  \/ \E f \in InFlight : FetchThrows(f) /\ UNCHANGED notHookVars
  \/ \E c \in rafQueue : Tick(c) /\ UNCHANGED notHookVars
  \/ \E t \in Times : AdvanceVideo(t) /\ UNCHANGED notHookVars
  \/ Unmount /\ UNCHANGED notHookVars

\* ------------------------------------------------ useWebcam (useWebcam.js)
\* The ref callbacks attachWebcamMain / attachWebcamPip (lines 56-73) and
\* the attach effect (lines 39-49) give an element that is in the DOM the
\* stream as srcObject when there is a stream.
NoElement == [present |-> FALSE, srcObject |-> 0]

NewElement == [present |-> TRUE, srcObject |-> 0]

AttachKeepsFirstStream(el, stream) ==
  IF el.present /\ stream # 0 /\ el.srcObject = 0
    THEN [el EXCEPT !.srcObject = stream] ELSE el

Attach(el, stream) ==
  IF el.present /\ stream # 0 THEN [el EXCEPT !.srcObject = stream] ELSE el

\* The cleanup of the init effect (lines 31-35): stops the tracks of the
\* stream its closure captured, if any.
CamCleanup(live, stream) == IF stream # 0 THEN live \ {stream} ELSE live

\* The init effect runs (deps []): initWebcam calls getUserMedia for the
\* hook instance inst, and the cleanup closes over the webcamStream of the
\* render that ran the effect.
CamInitEffect(inst, stream) ==
  /\ camRequests' = Append(camRequests, [st |-> "pending", inst |-> inst])
  /\ cleanupStream' = stream

\* The first mount: useState initial values, no element yet, the init
\* effect has run once.
CamInit ==
  /\ camMounted = TRUE /\ webcamStream = 0 /\ isWebcamActive = FALSE
  /\ cleanupStream = 0
  /\ camRequests = << [st |-> "pending", inst |-> 1] >>
  /\ liveStreams = {} /\ camInstance = 1
  /\ mainEl = NoElement /\ pipEl = NoElement

\* getUserMedia call i resolves with a stream (named i): lines 20-21 set
\* webcamStream and isWebcamActive of the instance that made the call, if
\* it is still mounted; the new webcamStream gives new ref callbacks,
\* which React calls with the elements in the DOM.
CamGranted(i) ==
  /\ i \in DOMAIN camRequests /\ camRequests[i].st = "pending"
  /\ camRequests' = [camRequests EXCEPT ![i].st = "granted"]
  /\ liveStreams' = liveStreams \cup {i}
  /\ IF camMounted /\ camRequests[i].inst = camInstance
     THEN /\ webcamStream' = i /\ isWebcamActive' = TRUE
          /\ mainEl' = Attach(mainEl, i) /\ pipEl' = Attach(pipEl, i)
     ELSE UNCHANGED <<webcamStream, isWebcamActive, mainEl, pipEl>>
  /\ UNCHANGED <<camMounted, cleanupStream, camInstance>>

\* getUserMedia call i rejects (permission denied): caught and logged.
CamDenied(i) ==
  /\ i \in DOMAIN camRequests /\ camRequests[i].st = "pending"
  /\ camRequests' = [camRequests EXCEPT ![i].st = "denied"]
  /\ UNCHANGED <<camMounted, webcamStream, isWebcamActive, cleanupStream,
                 liveStreams, camInstance, mainEl, pipEl>>

\* A view change puts a new main / PIP webcam video element into the DOM
\* or takes it out; React calls the ref callback with the element or null.
SetMainEl(present) ==
  /\ camMounted /\ present # mainEl.present
  /\ mainEl' = IF present THEN Attach(NewElement, webcamStream) ELSE NoElement
  /\ UNCHANGED <<camMounted, webcamStream, isWebcamActive, cleanupStream,
                 camRequests, liveStreams, camInstance, pipEl>>

SetPipEl(present) ==
  /\ camMounted /\ present # pipEl.present
  /\ pipEl' = IF present THEN Attach(NewElement, webcamStream) ELSE NoElement
  /\ UNCHANGED <<camMounted, webcamStream, isWebcamActive, cleanupStream,
                 camRequests, liveStreams, camInstance, mainEl>>

\* StrictMode (main.jsx) re-runs the effects of a mounted component: the
\* init effect's cleanup, then the init effect again; state is kept.
CamStrictRemount ==
  /\ camMounted /\ Len(camRequests) < MaxMounts
  /\ liveStreams' = CamCleanup(liveStreams, cleanupStream)
  /\ CamInitEffect(camInstance, webcamStream)
  /\ UNCHANGED <<camMounted, webcamStream, isWebcamActive, camInstance,
                 mainEl, pipEl>>

\* Learning mode unmounts: the init effect's cleanup runs, the elements
\* leave the DOM.
CamUnmount ==
  /\ camMounted
  /\ camMounted' = FALSE
  /\ liveStreams' = CamCleanup(liveStreams, cleanupStream)
  /\ mainEl' = NoElement /\ pipEl' = NoElement
  /\ UNCHANGED <<webcamStream, isWebcamActive, cleanupStream, camRequests,
                 camInstance>>

\* Learning mode is entered again: a new instance of the hook with the
\* useState initial values, whose init effect runs.
CamEnter ==
  /\ ~camMounted /\ Len(camRequests) < MaxMounts
  /\ camMounted' = TRUE /\ camInstance' = camInstance + 1
  /\ webcamStream' = 0 /\ isWebcamActive' = FALSE
  /\ CamInitEffect(camInstance + 1, 0)
  /\ UNCHANGED <<liveStreams, mainEl, pipEl>>

CamNext ==
  \/ \E i \in 1..MaxMounts : CamGranted(i) /\ UNCHANGED notCamVars
  \/ \E i \in 1..MaxMounts : CamDenied(i) /\ UNCHANGED notCamVars
  \/ \E b \in BOOLEAN : SetMainEl(b) /\ UNCHANGED notCamVars
  \/ \E b \in BOOLEAN : SetPipEl(b) /\ UNCHANGED notCamVars
  \/ CamStrictRemount /\ UNCHANGED notCamVars
  \/ CamUnmount /\ UNCHANGED notCamVars
  \/ CamEnter /\ UNCHANGED notCamVars

\* --------------------------------------- poseComparison (part_019)
\* A keypoint: planar position and confidence, in hundredths.
Kp(x, y, score) == [x |-> x, y |-> y, score |-> score]

\* Keypoint i (0-based, as in the source) of an array of keypoints.
HasKp(kps, i) == i + 1 <= Len(kps)
At(kps, i) == kps[i + 1]

\* The confidence threshold 0.3.
Threshold == 30

\* The 33-keypoint body model.
NumKeypoints == 33

Min(a, b) == IF a < b THEN a ELSE b
Max(a, b) == IF a > b THEN a ELSE b

\* Math.round of the rational num/den (den > 0): nearest integer, halves
\* up.
Round(num, den) == (2 * num + den) \div (2 * den)

\* Math.sqrt, truncated to an integer.
RECURSIVE SqrtSearch(_, _, _)
SqrtSearch(n, lo, hi) ==
  IF lo >= hi THEN lo
  ELSE LET mid == (lo + hi + 1) \div 2
       IN IF mid * mid <= n THEN SqrtSearch(n, mid, hi)
          ELSE SqrtSearch(n, lo, mid - 1)

ISqrt(n) == SqrtSearch(n, 0, Min(n, 46340))

\* calculateDistance (lines 9-13): the Euclidean distance of two points,
\* with `refine` more decimal digits than the coordinates have.
CalculateDistance(point1, point2, refine) ==
  LET dx == point1.x - point2.x
      dy == point1.y - point2.y
  IN ISqrt((dx * dx + dy * dy) * refine * refine)

\* normalizeKeypoints (lines 19-37).  The result is [ok |-> FALSE] for the
\* source's null; otherwise the keypoints with x and y divided by the hip
\* distance, in thousandths.  The hip distance is in units of 1/10000.
NormalizeIgnoresRightHip(keypoints) ==
  IF \/ ~HasKp(keypoints, 23) \/ ~HasKp(keypoints, 24)
     \/ At(keypoints, 23).score < Threshold
  THEN [ok |-> FALSE, kps |-> << >>]
  ELSE LET hipDistance ==
             CalculateDistance(At(keypoints, 23), At(keypoints, 24), 100)
       IN IF hipDistance = 0 THEN [ok |-> FALSE, kps |-> << >>]
          ELSE [ok |-> TRUE,
                kps |-> [i \in 1..Len(keypoints) |->
                          [keypoints[i] EXCEPT
                             !.x = (keypoints[i].x * 100000) \div hipDistance,
                             !.y = (keypoints[i].y * 100000) \div hipDistance]]]

NormalizeKeypoints(keypoints) ==
  IF \/ ~HasKp(keypoints, 23) \/ ~HasKp(keypoints, 24)
     \/ At(keypoints, 23).score < Threshold
     \/ At(keypoints, 24).score < Threshold
  THEN [ok |-> FALSE, kps |-> << >>]
  ELSE LET hipDistance ==
             CalculateDistance(At(keypoints, 23), At(keypoints, 24), 100)
       IN IF hipDistance = 0 THEN [ok |-> FALSE, kps |-> << >>]
          ELSE [ok |-> TRUE,
                kps |-> [i \in 1..Len(keypoints) |->
                          [keypoints[i] EXCEPT
                             !.x = (keypoints[i].x * 100000) \div hipDistance,
                             !.y = (keypoints[i].y * 100000) \div hipDistance]]]

\* The default keypoint weights (lines 82-92): 2 for shoulders, elbows,
\* wrists, hips, knees and ankles, 1 for everything else.
DefaultWeight(i) ==
  IF (i >= 11 /\ i <= 16) \/ (i >= 23 /\ i <= 28) THEN 2 ELSE 1

\* The loop of lines 100-120 over keypoints i..n-1: the sums totalError
\* (thousandths), totalWeight and validKeypoints.
RECURSIVE CompareLoop(_, _, _, _)
CompareLoopLiveOnly(live, ref, i, n) ==
  IF i >= n THEN [totalError |-> 0, totalWeight |-> 0, validKeypoints |-> 0]
  ELSE LET rest == CompareLoop(live, ref, i + 1, n)
       IN IF At(live, i).score > Threshold
          THEN [totalError |-> rest.totalError
                  + CalculateDistance(At(live, i), At(ref, i), 1) * DefaultWeight(i),
                totalWeight |-> rest.totalWeight + DefaultWeight(i),
                validKeypoints |-> rest.validKeypoints + 1]
          ELSE rest

CompareLoop(live, ref, i, n) ==
  IF i >= n THEN [totalError |-> 0, totalWeight |-> 0, validKeypoints |-> 0]
  ELSE LET rest == CompareLoop(live, ref, i + 1, n)
       IN IF At(live, i).score > Threshold /\ At(ref, i).score > Threshold
          THEN [totalError |-> rest.totalError
                  + CalculateDistance(At(live, i), At(ref, i), 1) * DefaultWeight(i),
                totalWeight |-> rest.totalWeight + DefaultWeight(i),
                validKeypoints |-> rest.validKeypoints + 1]
          ELSE rest

\* Lines 127-131: the score in tenths of a point from the error sums,
\* clamp(100 - avgError * 100, 0, 100) rounded to one decimal.
ScoreFromErrorInverted(totalError, totalWeight) ==
  Max(0, Min(1000, Round(totalError, totalWeight)))

ScoreFromError(totalError, totalWeight) ==
  Max(0, Min(1000, Round(1000 * totalWeight - totalError, totalWeight)))

\* A keypoints argument: an array of keypoints, or null.
Keypoints(kps) == [null |-> FALSE, kps |-> kps]
NullKeypoints == [null |-> TRUE, kps |-> << >>]

\* calculatePoseSimilarity (lines 64-139) with the default weights: the
\* score in tenths of a point and details.error ("none" when the details
\* carry no error).
CalculatePoseSimilarity(livePoseKeypoints_, referencePoseKeypoints_) ==
  IF livePoseKeypoints_.null \/ referencePoseKeypoints_.null
  THEN [score |-> 0, error |-> "Missing pose data"]
  ELSE
  LET normalizedLive == NormalizeKeypoints(livePoseKeypoints_.kps)
      normalizedRef == NormalizeKeypoints(referencePoseKeypoints_.kps)
  IN IF ~normalizedLive.ok \/ ~normalizedRef.ok
     THEN [score |-> 0, error |-> "Cannot normalize poses"]
     ELSE LET sums == CompareLoop(normalizedLive.kps, normalizedRef.kps, 0,
                                  Min(Len(normalizedLive.kps),
                                      Len(normalizedRef.kps)))
          IN IF sums.validKeypoints = 0
             THEN [score |-> 0, error |-> "No valid keypoints detected"]
             ELSE [score |-> ScoreFromError(sums.totalError, sums.totalWeight),
                   error |-> "none"]

\* Math.atan2(dy, dx) in degrees, for the directions of the model's
\* keypoint grid: along an axis or a diagonal, or the zero vector.
Atan2Deg(dy, dx) ==
  IF dy = 0 THEN (IF dx < 0 THEN 180 ELSE 0)
  ELSE IF dx = 0 THEN (IF dy > 0 THEN 90 ELSE -90)
  ELSE IF dx > 0 THEN (IF dy > 0 THEN 45 ELSE -45)
  ELSE (IF dy > 0 THEN 135 ELSE -135)

\* calculateAngle (lines 43-53), in degrees.
CalculateAngle(point1, point2, point3) ==
  LET angle == Abs(Atan2Deg(point3.y - point2.y, point3.x - point2.x)
                   - Atan2Deg(point1.y - point2.y, point1.x - point2.x))
  IN IF angle > 180 THEN 360 - angle ELSE angle

\* The joints of calculateJointAngles (lines 149-187) and the three
\* keypoints of each.
JointPoints ==
  [leftElbow |-> <<11, 13, 15>>, rightElbow |-> <<12, 14, 16>>,
   leftKnee |-> <<23, 25, 27>>, rightKnee |-> <<24, 26, 28>>,
   leftShoulder |-> <<13, 11, 23>>, rightShoulder |-> <<14, 12, 24>>,
   leftHip |-> <<11, 23, 25>>, rightHip |-> <<12, 24, 26>>]

\* calculateJointAngles (lines 144-190): [ok |-> FALSE] for null,
\* otherwise the angle of every joint whose three keypoints have a
\* confidence above the threshold.
CalculateJointAngles(keypoints) ==
  IF keypoints.null \/ Len(keypoints.kps) < NumKeypoints
  THEN [ok |-> FALSE, angles |-> << >>]
  ELSE LET kps == keypoints.kps
           present ==
             { j \in DOMAIN JointPoints :
                 \A k \in 1..3 : At(kps, JointPoints[j][k]).score > Threshold }
       IN [ok |-> TRUE,
           angles |-> [j \in present |->
                        CalculateAngle(At(kps, JointPoints[j][1]),
                                       At(kps, JointPoints[j][2]),
                                       At(kps, JointPoints[j][3]))]]

RECURSIVE SumDiffs(_, _, _)
SumDiffs(live, ref, joints) ==
  IF joints = {} THEN 0
  ELSE LET j == CHOOSE k \in joints : TRUE
       IN Abs(live[j] - ref[j]) + SumDiffs(live, ref, joints \ {j})

\* compareJointAngles (lines 195-227): the score in tenths of a point,
\* max(0, 100 - avgDiff / 1.8) rounded to one decimal, over the joints
\* both frames have; 0 without angles or without a common joint.
CompareJointAngles(liveAngles, referenceAngles) ==
  IF ~liveAngles.ok \/ ~referenceAngles.ok THEN [score |-> 0, count |-> 0]
  ELSE LET common == DOMAIN referenceAngles.angles \cap DOMAIN liveAngles.angles
           count == Cardinality(common)
           totalDiff == SumDiffs(liveAngles.angles, referenceAngles.angles, common)
       IN IF count = 0 THEN [score |-> 0, count |-> 0]
          ELSE [score |-> Max(0, Round(1000 * 18 * count - totalDiff * 100,
                                       18 * count)),
                count |-> count]

\* getFeedbackMessage (lines 250-257) of a score in hundredths of a point.
GetFeedbackMessage(score) ==
  IF score >= 9500 THEN "Perfect!"
  ELSE IF score >= 8500 THEN "Excellent!"
  ELSE IF score >= 7500 THEN "Great!"
  ELSE IF score >= 6500 THEN "Good!"
  ELSE IF score >= 5000 THEN "Keep trying!"
  ELSE "Need more practice"

\* ------------------------------------------------- frames of the model
\* A body on a grid on which every limb runs along an axis or a diagonal:
\* shoulders at y = 20 with the arms stretched sideways, hips at y = 60,
\* knees at y = 80, ankles at y = 100, everything else at the nose.
Layout(i) ==
  CASE i = 11 -> <<60, 20>> [] i = 12 -> <<40, 20>>
    [] i = 13 -> <<80, 20>> [] i = 14 -> <<20, 20>>
    [] i = 15 -> <<100, 20>> [] i = 16 -> <<0, 20>>
    [] i = 23 -> <<60, 60>> [] i = 24 -> <<40, 60>>
    [] i = 25 -> <<60, 80>> [] i = 26 -> <<40, 80>>
    [] i = 27 -> <<60, 100>> [] i = 28 -> <<40, 100>>
    [] OTHER -> <<40, 0>>

\* The frame of n keypoints in which the hips have the confidences lhs and
\* rhs, the right shoulder, hip, knee and ankle are at x = rhx (so that the
\* limbs stay on the grid), the left wrist is at wrist and every other
\* keypoint has the confidence os.
MakeFrame(n, lhs, rhs, rhx, os, wrist) ==
  [k \in 1..n |->
     LET i == k - 1
     IN IF i = 23 THEN Kp(Layout(i)[1], Layout(i)[2], lhs)
        ELSE IF i = 24 THEN Kp(rhx, Layout(i)[2], rhs)
        ELSE IF i \in {12, 26, 28} THEN Kp(rhx, Layout(i)[2], os)
        ELSE IF i = 15 THEN Kp(wrist[1], wrist[2], os)
        ELSE Kp(Layout(i)[1], Layout(i)[2], os)]

\* Frames with and without the right hip entry, hips below, at and above
\* the threshold, hips at the same position, 0.2 or 0.4 apart, the other
\* keypoints at or above the threshold, the left arm straight or bent.
Frames ==
  { MakeFrame(n, lhs, rhs, rhx, os, wrist) :
      n \in {NumKeypoints, 24}, lhs \in {29, 30, 90}, rhs \in {29, 30, 90},
      rhx \in {20, 40, 60}, os \in {30, 90},
      wrist \in {<<100, 20>>, <<80, 40>>} }

KeypointArgs == {NullKeypoints} \cup { Keypoints(f) : f \in Frames }

NoResult == [score |-> 0 - 1, error |-> "not called"]
NoAngles == [score |-> 0 - 1, count |-> 0]

\* ------------------------------------- the comparator as a function
PoseInit ==
  /\ livePoseKeypoints \in KeypointArgs
  /\ referencePoseKeypoints \in KeypointArgs
  /\ similarity = NoResult
  /\ angleResult = NoAngles

\* The comparator is not being called.
PoseIdle ==
  /\ livePoseKeypoints = NullKeypoints
  /\ referencePoseKeypoints = NullKeypoints
  /\ similarity = NoResult
  /\ angleResult = NoAngles

CallPoseSimilarity ==
  /\ similarity = NoResult
  /\ similarity' = CalculatePoseSimilarity(livePoseKeypoints,
                                           referencePoseKeypoints)
  /\ UNCHANGED <<livePoseKeypoints, referencePoseKeypoints, angleResult>>

CallCompareJointAngles ==
  /\ angleResult = NoAngles
  /\ angleResult' = CompareJointAngles(CalculateJointAngles(livePoseKeypoints),
                                       CalculateJointAngles(referencePoseKeypoints))
  /\ UNCHANGED <<livePoseKeypoints, referencePoseKeypoints, similarity>>

PoseNext ==
  \/ CallPoseSimilarity /\ UNCHANGED notPoseVars
  \/ CallCompareJointAngles /\ UNCHANGED notPoseVars

\* --------------------------------------- usePoseComparison (part_014)
Undefined == 0 - 1

\* v || d for a number v: d when v is undefined or 0.
OrDefault(v, d) == IF v = Undefined \/ v = 0 THEN d ELSE v

\* The defaults of lines 29, 59 and 60; weights are in tenths.
DefaultHistoryLimit == 100
DefaultPoseSimilarityWeight == 6
DefaultAngleWeight == 4

NoPose == [null |-> TRUE, keypoints |-> NullKeypoints]
Pose(keypoints) == [null |-> FALSE, keypoints |-> keypoints]

NullResult == [null |-> TRUE, score |-> 0, error |-> "none", combinedScore |-> 0]
NullAngleComparison == [null |-> TRUE, score |-> 0, count |-> 0]

\* The initial statistics (lines 20-26, 101-107).  Scores are in
\* hundredths of a point; avgScore is the fraction num / den.
InitialStats ==
  [avgScore |-> [num |-> 0, den |-> 1], maxScore |-> 0, minScore |-> 10000,
   frameCount |-> 0, scoreHistory |-> << >>]

RECURSIVE SumSeq(_)
SumSeq(q) == IF q = << >> THEN 0 ELSE Head(q) + SumSeq(Tail(q))

\* Lines 69-85: the statistics after a comparison with the combined score.
UpdateStatisticsEvictsNewest(stats, combinedScore, historyLimit) ==
  LET pushed == Append(stats.scoreHistory, combinedScore)
      history == IF Len(pushed) > historyLimit
                 THEN SubSeq(pushed, 1, historyLimit) ELSE pushed
  IN [avgScore |-> [num |-> SumSeq(history), den |-> Len(history)],
      maxScore |-> Max(stats.maxScore, combinedScore),
      minScore |-> Min(stats.minScore, combinedScore),
      frameCount |-> stats.frameCount + 1,
      scoreHistory |-> history]

UpdateStatisticsWindowExtremes(stats, combinedScore, historyLimit) ==
  LET pushed == Append(stats.scoreHistory, combinedScore)
      history == IF Len(pushed) > historyLimit THEN Tail(pushed) ELSE pushed
  IN [avgScore |-> [num |-> SumSeq(history), den |-> Len(history)],
      maxScore |-> CHOOSE v \in {history[k] : k \in 1..Len(history)} :
                     \A k \in 1..Len(history) : v >= history[k],
      minScore |-> CHOOSE v \in {history[k] : k \in 1..Len(history)} :
                     \A k \in 1..Len(history) : v <= history[k],
      frameCount |-> stats.frameCount + 1,
      scoreHistory |-> history]

UpdateStatisticsCountsWindow(stats, combinedScore, historyLimit) ==
  LET pushed == Append(stats.scoreHistory, combinedScore)
      history == IF Len(pushed) > historyLimit THEN Tail(pushed) ELSE pushed
  IN [avgScore |-> [num |-> SumSeq(history), den |-> Len(history)],
      maxScore |-> Max(stats.maxScore, combinedScore),
      minScore |-> Min(stats.minScore, combinedScore),
      frameCount |-> Len(history),
      scoreHistory |-> history]

UpdateStatistics(stats, combinedScore, historyLimit) ==
  LET pushed == Append(stats.scoreHistory, combinedScore)
      history == IF Len(pushed) > historyLimit THEN Tail(pushed) ELSE pushed
  IN [avgScore |-> [num |-> SumSeq(history), den |-> Len(history)],
      maxScore |-> Max(stats.maxScore, combinedScore),
      minScore |-> Min(stats.minScore, combinedScore),
      frameCount |-> stats.frameCount + 1,
      scoreHistory |-> history]

\* Lines 58-64: the combined score in hundredths of a point.
CombinedScore(similarityScore, angleScore, opts) ==
  similarityScore * OrDefault(opts.poseSimilarityWeight, DefaultPoseSimilarityWeight)
    + angleScore * OrDefault(opts.angleWeight, DefaultAngleWeight)

\* The comparison effect (lines 32-97) run with the poses live and ref.
ComparisonEffect(live, ref) ==
  IF live.null \/ ref.null
  THEN /\ comparisonResult' = NullResult
       /\ angleComparison' = NullAngleComparison
       /\ feedback' = "null"
       /\ UNCHANGED <<statistics, scoreLog>>
  ELSE IF live.keypoints.null \/ ref.keypoints.null
  THEN UNCHANGED <<comparisonResult, angleComparison, feedback, statistics,
                   scoreLog>>
  ELSE
    LET sim == CalculatePoseSimilarity(live.keypoints, ref.keypoints)
        angleComp == CompareJointAngles(CalculateJointAngles(live.keypoints),
                                        CalculateJointAngles(ref.keypoints))
        combinedScore == CombinedScore(sim.score, angleComp.score, options)
    IN /\ statistics' =
            UpdateStatistics(statistics, combinedScore,
                             OrDefault(options.historyLimit, DefaultHistoryLimit))
       /\ scoreLog' = Append(scoreLog, combinedScore)
       /\ comparisonResult' =
            [null |-> FALSE, score |-> sim.score, error |-> sim.error,
             combinedScore |-> Round(combinedScore, 10)]
       /\ angleComparison' =
            [null |-> FALSE, score |-> angleComp.score, count |-> angleComp.count]
       /\ feedback' = GetFeedbackMessage(combinedScore)

\* A render with new pose props: the effect runs on them.
PoseTick(live, ref) ==
  /\ (~live.null /\ ~ref.null /\ ~live.keypoints.null /\ ~ref.keypoints.null)
       => statistics.frameCount < MaxTicks
  /\ livePose' = live
  /\ referencePose' = ref
  /\ ComparisonEffect(live, ref)
  /\ UNCHANGED options

\* resetStatistics (lines 100-110).
ResetStatistics ==
  /\ statistics' = InitialStats
  /\ scoreLog' = << >>
  /\ UNCHANGED <<livePose, referencePose, options, comparisonResult,
                 angleComparison, feedback>>

\* The poses the hook is given: none, a pose object without keypoints,
\* and poses with a full body, a bent arm and an undetected left hip.
GoodFrame == MakeFrame(NumKeypoints, 90, 90, 40, 90, <<100, 20>>)
BentFrame == MakeFrame(NumKeypoints, 90, 90, 40, 90, <<80, 40>>)
LowHipFrame == MakeFrame(NumKeypoints, 29, 90, 40, 90, <<100, 20>>)

LivePoses ==
  {NoPose} \cup { Pose(Keypoints(f)) : f \in {GoodFrame, BentFrame, LowHipFrame} }

ReferencePoses == {NoPose, Pose(NullKeypoints), Pose(Keypoints(GoodFrame))}

\* The options of the model: none, a history limit, equal weights, the
\* keypoint similarity alone, and weights that sum to more than 1.
Options(poseSimilarityWeight, angleWeight, historyLimit) ==
  [poseSimilarityWeight |-> poseSimilarityWeight, angleWeight |-> angleWeight,
   historyLimit |-> historyLimit]

OptionSets ==
  { Options(Undefined, Undefined, Undefined),
    Options(Undefined, Undefined, SmallLimit),
    Options(5, 5, SmallLimit),
    Options(10, 0, Undefined),
    Options(8, 8, Undefined) }

\* The hook after its first render without poses.
CmpIdle ==
  /\ livePose = NoPose /\ referencePose = NoPose
  /\ comparisonResult = NullResult
  /\ angleComparison = NullAngleComparison
  /\ feedback = "null"
  /\ statistics = InitialStats
  /\ scoreLog = << >>

CmpInit == CmpIdle /\ options \in OptionSets

CmpNext ==
  \/ \E live \in LivePoses, ref \in ReferencePoses :
       PoseTick(live, ref) /\ UNCHANGED notCmpVars
  \/ ResetStatistics /\ UNCHANGED notCmpVars

\* ------------------------------------------ ProjectView and LearningMode
\* Times of the reference video are tenths of a second; overlay opacity is
\* in hundredths (70 is 0.7).
VIEW_MODES == {"pip", "overlay", "sidebyside", "full"}

\* clipTimings: clip k of 1..Len is [start, end); clip 0 is the whole video
ClipTimings == << <<0, 50>>, <<50, 133>> >>

ClipIds == 0..Len(ClipTimings)

GetCurrentStartClipTimeStamp(clipId) ==
  IF clipId = 0 THEN 0 ELSE ClipTimings[clipId][1]

GetCurrentEndClipTimeStamp(clipId) ==
  IF clipId = 0 THEN 133 ELSE ClipTimings[clipId][2]

\* positions the editor's video can report while it plays or is scrubbed
EditorTimes == {0, 20, 50, 90, 133}

\* editorTime when the editor's <video> is not in the DOM
NoPlayer == Undefined

\* the currentTime of a <video> element that has just been created
NewVideo == 0

ClipEffectKeepsPosition(position, start) == position

\* CustomVideoPlayer's clip effect, run at mount and when start or end
\* change: video.currentTime = start
ClipEffect(position, start) == start

\* resetClip, the timeupdate listener the clip effect registers
ResetClip(position, start, end) == IF position >= end THEN start ELSE position

\* The editor (toolbar, #projectViewVideoPlayer, clips) is rendered only
\* outside learning mode, and its CustomVideoPlayer once the video loaded.
PlayerRendered(learning, loading_) == ~learning /\ ~loading_

\* The position of the editor's video after a render in which the editor's
\* player appears, stays (with or without a change of start/end) or goes.
RenderPlayer(learning, loading_, clip) ==
  IF ~PlayerRendered(learning, loading_) THEN NoPlayer
  ELSE IF editorTime = NoPlayer
         THEN ClipEffect(NewVideo, GetCurrentStartClipTimeStamp(clip))
  ELSE IF clip # currentClipId
         THEN ClipEffect(editorTime, GetCurrentStartClipTimeStamp(clip))
  ELSE editorTime

\* the initial state of useViewMode
InitialViewMode == "pip"
InitialOpacity == 70

\* handleKeyDown of one run of the keyboard effect: it closes over the
\* viewMode of its render
Handler(mode) == [viewMode |-> mode]

AddEventListener(listeners, h) == listeners (+) SetToBag({h})

RemoveListenerKeepsIt(listeners, h) == listeners

RemoveEventListener(listeners, h) == listeners (-) SetToBag({h})

\* useKeyboardShortcuts' effect at mount (under StrictMode: run, cleanup,
\* run again) and when viewMode changes (cleanup of the previous run, then
\* the new run)
KeyboardEffectMount(listeners, mode) ==
  AddEventListener(
    RemoveEventListener(AddEventListener(listeners, Handler(mode)),
                        Handler(mode)),
    Handler(mode))

KeyboardEffectUpdate(listeners, old, new) ==
  AddEventListener(RemoveEventListener(listeners, Handler(old)), Handler(new))

KeyboardEffectUnmount(listeners, mode) ==
  RemoveEventListener(listeners, Handler(mode))

Input(kind, arg) == [kind |-> kind, arg |-> arg]

\* LearningMode mounts: useViewMode's initial state, the keyboard effect
MountLearningMode ==
  /\ viewMode' = InitialViewMode
  /\ isSwitched' = FALSE
  /\ overlayOpacity' = InitialOpacity
  /\ keyListeners' = KeyboardEffectMount(keyListeners, InitialViewMode)

\* LearningMode unmounts (its state is gone; the variables hold what the
\* next mount starts from)
UnmountLearningMode ==
  /\ viewMode' = InitialViewMode
  /\ isSwitched' = FALSE
  /\ overlayOpacity' = InitialOpacity
  /\ keyListeners' = KeyboardEffectUnmount(keyListeners, viewMode)

\* setIsLearningMode(true) and the render that follows
EnterLearningMode ==
  /\ isLearningMode' = TRUE
  /\ practiceClip' = currentClipId
  /\ editorTime' = RenderPlayer(TRUE, isLoading, currentClipId)
  /\ MountLearningMode
  /\ UNCHANGED <<currentClipId, isLoading>>

\* exitLearningMode: setIsLearningMode(false), then the reset of the
\* editor's video if videoPlayerRef.current is set (it is null while the
\* editor is not rendered), and the render that follows
ExitLearningMode ==
  /\ isLearningMode' = FALSE
  /\ editorTime' =
       IF editorTime # NoPlayer
         THEN GetCurrentStartClipTimeStamp(currentClipId)
         ELSE RenderPlayer(FALSE, isLoading, currentClipId)
  /\ IF isLearningMode THEN UnmountLearningMode
     ELSE UNCHANGED <<viewMode, isSwitched, overlayOpacity, keyListeners>>
  /\ UNCHANGED <<currentClipId, isLoading, practiceClip>>

\* the video URL arrives: setIsLoading(false)
VideoLoaded ==
  /\ isLoading
  /\ isLoading' = FALSE
  /\ editorTime' = RenderPlayer(isLearningMode, FALSE, currentClipId)
  /\ lastInput' = Input("loaded", "none")
  /\ exitCalls' = 0
  /\ UNCHANGED <<isLearningMode, currentClipId, viewMode, isSwitched,
                 overlayOpacity, keyListeners, practiceClip>>

\* selectClip(idx, div): a click on clip idx+1, or a click off the clips
\* (div null)
SelectClip(idx, clickOff) ==
  /\ ~isLearningMode
  /\ currentClipId' = IF currentClipId = idx + 1 \/ clickOff THEN 0
                      ELSE idx + 1
  /\ editorTime' = RenderPlayer(FALSE, isLoading, currentClipId')
  /\ lastInput' = Input("selectClip", "none")
  /\ exitCalls' = 0
  /\ UNCHANGED <<isLearningMode, isLoading, viewMode, isSwitched,
                 overlayOpacity, keyListeners, practiceClip>>

\* the editor's video plays or is scrubbed to position t; resetClip runs on
\* the timeupdate event
EditorTimeUpdate(t) ==
  /\ editorTime # NoPlayer
  /\ editorTime' = ResetClip(t, GetCurrentStartClipTimeStamp(currentClipId),
                             GetCurrentEndClipTimeStamp(currentClipId))
  /\ lastInput' = Input("timeupdate", "none")
  /\ exitCalls' = 0
  /\ UNCHANGED <<isLearningMode, currentClipId, isLoading, viewMode,
                 isSwitched, overlayOpacity, keyListeners, practiceClip>>

\* handleEnterLearningMode, the Learning Mode button of the toolbar
HandleEnterLearningMode ==
  /\ ~isLearningMode
  /\ lastInput' = Input("enterButton", "none")
  /\ exitCalls' = 0
  /\ IF currentClipId = 0
       THEN UNCHANGED <<isLearningMode, currentClipId, isLoading, editorTime,
                        viewMode, isSwitched, overlayOpacity, keyListeners,
                        practiceClip>>
       ELSE EnterLearningMode

\* what a fullscreenchange event can report: no fullscreen element, an
\* element inside #projectViewVideoPlayer, an element outside it
FsElements == {"none", "player", "other"}

FsForcesAlways(fsEl) == fsEl # "none" /\ ~isLearningMode

IsPlayerFullscreen(fsEl) ==
  /\ fsEl # "none"
  /\ ~isLearningMode        \* playerContainer: the editor is rendered
  /\ fsEl = "player"

\* onFsChange
OnFsChange(fsEl) ==
  \* an element inside the player exists only while the player is rendered
  /\ fsEl = "player" => editorTime # NoPlayer
  /\ lastInput' = Input("fullscreenchange", fsEl)
  /\ exitCalls' = 0
  /\ IF IsPlayerFullscreen(fsEl) /\ ~isLearningMode
       THEN EnterLearningMode
       ELSE UNCHANGED <<isLearningMode, currentClipId, isLoading, editorTime,
                        viewMode, isSwitched, overlayOpacity, keyListeners,
                        practiceClip>>

\* setViewModePip / Overlay / SideBySide / Full (the mode buttons)
SetViewMode(mode) ==
  /\ isLearningMode
  /\ viewMode' = mode
  /\ keyListeners' = IF mode = viewMode THEN keyListeners
                     ELSE KeyboardEffectUpdate(keyListeners, viewMode, mode)
  /\ lastInput' = Input("mode", mode)
  /\ exitCalls' = 0
  /\ UNCHANGED <<isLearningMode, currentClipId, isLoading, editorTime,
                 isSwitched, overlayOpacity, practiceClip>>

\* toggleVideoSwitch
ToggleSwitched(switched) == ~switched

ToggleVideoSwitch ==
  /\ isLearningMode
  /\ isSwitched' = ToggleSwitched(isSwitched)
  /\ lastInput' = Input("toggle", "none")
  /\ exitCalls' = 0
  /\ UNCHANGED <<isLearningMode, currentClipId, isLoading, editorTime,
                 viewMode, overlayOpacity, keyListeners, practiceClip>>

\* the values of the range input of the overlay view: min 0.1, max 1,
\* step 0.1
SliderValues == { 10 * k : k \in 1..10 }

\* setTransparency(value), from the slider's onChange
SliderChange(value) ==
  /\ isLearningMode /\ viewMode = "overlay"
  /\ overlayOpacity' = value
  /\ lastInput' = Input("slider", "none")
  /\ exitCalls' = 0
  /\ UNCHANGED <<isLearningMode, currentClipId, isLoading, editorTime,
                 viewMode, isSwitched, keyListeners, practiceClip>>

Keys == {"Escape", "ArrowUp", "ArrowDown", "a"}

ArrowUpUnclamped(prev) == prev + 10

\* the updaters handleKeyDown passes to setTransparency
ArrowUp(prev) == Min(100, prev + 10)

ArrowDown(prev) == Max(10, prev - 10)

ArrowsInEveryMode(h, key) == key \in {"ArrowUp", "ArrowDown"}

\* whether handler h adjusts the opacity on this key
AdjustsOpacity(h, key) ==
  h.viewMode = "overlay" /\ key \in {"ArrowUp", "ArrowDown"}

\* the updaters the registered handlers queue on one key press, applied
\* in turn
RECURSIVE ApplyUpdaters(_, _, _)
ApplyUpdaters(n, key, prev) ==
  IF n = 0 THEN prev
  ELSE ApplyUpdaters(n - 1, key,
                     IF key = "ArrowUp" THEN ArrowUp(prev)
                     ELSE ArrowDown(prev))

Adjusting(key) ==
  BagCardinality([h \in { g \in BagToSet(keyListeners) :
                            AdjustsOpacity(g, key) }
                    |-> keyListeners[h]])

\* a keydown event on document: every registered handleKeyDown runs
KeyDown(key) ==
  /\ lastInput' = Input("key", key)
  /\ IF key = "Escape" /\ keyListeners # EmptyBag
       THEN /\ exitCalls' = BagCardinality(keyListeners)
            /\ ExitLearningMode
       ELSE /\ exitCalls' = 0
            /\ overlayOpacity' =
                 IF isLearningMode
                   THEN ApplyUpdaters(Adjusting(key), key, overlayOpacity)
                   ELSE overlayOpacity
            /\ UNCHANGED <<isLearningMode, currentClipId, isLoading,
                           editorTime, viewMode, isSwitched, keyListeners,
                           practiceClip>>

\* the exit button of ControlButtons: onExit
ExitButton ==
  /\ isLearningMode
  /\ lastInput' = Input("exitButton", "none")
  /\ exitCalls' = 1
  /\ ExitLearningMode

\* ProjectView's first render
ViewInit ==
  /\ isLearningMode = FALSE /\ currentClipId = 0 /\ isLoading = TRUE
  /\ editorTime = NoPlayer
  /\ viewMode = InitialViewMode /\ isSwitched = FALSE
  /\ overlayOpacity = InitialOpacity
  /\ keyListeners = EmptyBag
  /\ lastInput = Input("none", "none")
  /\ exitCalls = 0
  /\ practiceClip = 0

ViewNext ==
  \/ VideoLoaded /\ UNCHANGED notViewVars
  \/ \E idx \in 0..(Len(ClipTimings) - 1), clickOff \in BOOLEAN :
       SelectClip(idx, clickOff) /\ UNCHANGED notViewVars
  \/ \E t \in EditorTimes : EditorTimeUpdate(t) /\ UNCHANGED notViewVars
  \/ HandleEnterLearningMode /\ UNCHANGED notViewVars
  \/ \E fsEl \in FsElements : OnFsChange(fsEl) /\ UNCHANGED notViewVars
  \/ \E mode \in VIEW_MODES : SetViewMode(mode) /\ UNCHANGED notViewVars
  \/ ToggleVideoSwitch /\ UNCHANGED notViewVars
  \/ \E value \in SliderValues : SliderChange(value) /\ UNCHANGED notViewVars
  \/ \E key \in Keys : KeyDown(key) /\ UNCHANGED notViewVars
  \/ ExitButton /\ UNCHANGED notViewVars

\* ------------------------------------------------------- PipView resize
\* Pixel sizes that are not whole numbers are exact rationals [n, d] with
\* d > 0, in lowest terms.
RECURSIVE GCD(_, _)
GCD(a, b) == IF b = 0 THEN a ELSE GCD(b, a % b)

Frac(n, d) ==
  LET g == GCD(Abs(n), d) IN [n |-> n \div g, d |-> d \div g]

Whole(k) == [n |-> k, d |-> 1]

FracLess(a, b) == a.n * b.d < b.n * a.d

FracMin(a, b) == IF FracLess(b, a) THEN b ELSE a

FracMax(a, b) == IF FracLess(a, b) THEN b ELSE a

FracMul(a, b) == Frac(a.n * b.n, a.d * b.d)

\* a / b for b > 0
FracDiv(a, b) == Frac(a.n * b.d, a.d * b.n)

FracSub(a, b) == Frac(a.n * b.d - b.n * a.d, a.d * b.d)

\* Math.round of a rational
RoundFrac(a) == Round(a.n, a.d)

FracAbs(a) == [n |-> Abs(a.n), d |-> a.d]

\* useState({ width: 300, height: 200 }), useState(4 / 3)
InitialPipSize == [width |-> Whole(300), height |-> 200]

InitialAspect == Frac(4, 3)

InitialResizeState ==
  [isResizing |-> FALSE, startX |-> 0, startY |-> 0,
   startW |-> Whole(300), startH |-> 200]

MinH == 120
MaxPipWidth == 960
MaxPipHeight == 720
MinPipWidth == 160

\* normDx = dx / startW, normDy = dy / startH
NormDx(dx, startW) == FracDiv(Whole(dx), startW)

NormDy(dy, startH) == Frac(dy, startH)

\* the normalized delta of larger magnitude
DominantByMagnitude(normDx, normDy) ==
  IF FracLess(FracAbs(normDx), FracAbs(normDy)) THEN normDy ELSE normDx

\* Math.max(normDx, normDy)
Dominant(normDx, normDy) == FracMax(normDx, normDy)

\* let scale = 1 - Math.max(normDx, normDy)
Scale(dx, dy, startW, startH) ==
  FracSub(Whole(1), Dominant(NormDx(dx, startW), NormDy(dy, startH)))

ClampWidthToWindow(desiredW, minW, maxW) ==
  FracMin(FracMax(Whole(minW), desiredW), Whole(maxW))

\* desiredW = Math.max(minW, Math.min(desiredW, maxW))
ClampWidth(desiredW, minW, maxW) ==
  FracMax(Whole(minW), FracMin(desiredW, Whole(maxW)))

\* The size onMouseMove stores, for a drag offset (dx, dy) from a start
\* size, an aspect ratio and a window.
ResizedPip(dx, dy, startW, startH, aspect, win) ==
  LET maxW == Min(win[1], MaxPipWidth)
      maxH == Min(win[2], MaxPipHeight)
      minW == Max(MinPipWidth, RoundFrac(FracMul(Whole(MinH), aspect)))
      scale == Scale(dx, dy, startW, startH)
      desiredW == ClampWidth(FracMul(startW, scale), minW, maxW)
      desiredH == RoundFrac(FracDiv(desiredW, aspect))
  IN  IF desiredH < MinH
        THEN [width |-> Whole(RoundFrac(FracMul(Whole(MinH), aspect))),
              height |-> MinH]
      ELSE IF desiredH > maxH
        THEN [width |-> Whole(RoundFrac(FracMul(Whole(maxH), aspect))),
              height |-> maxH]
      ELSE [width |-> desiredW, height |-> desiredH]

\* a resize is started only from a width whose denominator is at most
\* this (the rationals of a chain of resizes stay within machine integers)
MaxDenominator == 1

\* window sizes: a desktop window, a narrow one, a low one
Windows == { <<1920, 1080>>, <<150, 800>>, <<1000, 100>> }

\* aspect ratios a webcam reports: 4:3, 16:9, 9:16 (portrait)
Aspects == { Frac(4, 3), Frac(16, 9), Frac(9, 16) }

\* pointer positions
MouseXs == {0, 300, 1200}
MouseYs == {0, 260, 1200}

NoMove == [moved |-> FALSE, dx |-> 0, dy |-> 0, startW |-> Whole(300),
           startH |-> 200, scale |-> Whole(1)]

\* onResizeMouseDown
OnResizeMouseDown(x, y) ==
  /\ pipSize.width.d <= MaxDenominator
  /\ resizeState' = [isResizing |-> TRUE, startX |-> x, startY |-> y,
                     startW |-> pipSize.width, startH |-> pipSize.height]
  /\ lastMove' = NoMove
  /\ UNCHANGED <<pipSize, aspectRatio, aspectInitialized, windowSize>>

\* onMouseMove
OnMouseMove(x, y) ==
  IF ~resizeState.isResizing
    THEN /\ lastMove' = NoMove
         /\ UNCHANGED <<pipSize, resizeState, aspectRatio, aspectInitialized,
                        windowSize>>
    ELSE LET dx == x - resizeState.startX
             dy == y - resizeState.startY
         IN  /\ pipSize' = ResizedPip(dx, dy, resizeState.startW,
                                      resizeState.startH, aspectRatio,
                                      windowSize)
             /\ lastMove' = [moved |-> TRUE, dx |-> dx, dy |-> dy,
                             startW |-> resizeState.startW,
                             startH |-> resizeState.startH,
                             scale |-> Scale(dx, dy, resizeState.startW,
                                             resizeState.startH)]
             /\ UNCHANGED <<resizeState, aspectRatio, aspectInitialized,
                            windowSize>>

\* onMouseUp
OnMouseUp ==
  /\ resizeState' = [resizeState EXCEPT !.isResizing = FALSE]
  /\ lastMove' = NoMove
  /\ UNCHANGED <<pipSize, aspectRatio, aspectInitialized, windowSize>>

\* the effect on webcamAspectRatio: the first known ratio is kept
AspectKnown(webcamAspectRatio) ==
  /\ ~aspectInitialized
  /\ aspectInitialized' = TRUE
  /\ aspectRatio' = webcamAspectRatio
  /\ pipSize' = [width |-> pipSize.width,
                 height |-> RoundFrac(FracDiv(pipSize.width,
                                              webcamAspectRatio))]
  /\ lastMove' = NoMove
  /\ UNCHANGED <<resizeState, windowSize>>

\* the user resizes the browser window
WindowResized(win) ==
  /\ win # windowSize
  /\ windowSize' = win
  /\ lastMove' = NoMove
  /\ UNCHANGED <<pipSize, resizeState, aspectRatio, aspectInitialized>>

\* PipView's first render, in a desktop window
PipInit ==
  /\ pipSize = InitialPipSize
  /\ resizeState = InitialResizeState
  /\ aspectRatio = InitialAspect
  /\ aspectInitialized = FALSE
  /\ windowSize = <<1920, 1080>>
  /\ lastMove = NoMove

PipNext ==
  \/ \E x \in MouseXs, y \in MouseYs :
       OnResizeMouseDown(x, y) /\ UNCHANGED notPipVars
  \/ \E x \in MouseXs, y \in MouseYs :
       OnMouseMove(x, y) /\ UNCHANGED notPipVars
  \/ OnMouseUp /\ UNCHANGED notPipVars
  \/ \E r \in Aspects : AspectKnown(r) /\ UNCHANGED notPipVars
  \/ \E win \in Windows : WindowResized(win) /\ UNCHANGED notPipVars

\* ------------------------------------ useMediaPipePose: frame processing
\* The hook is modelled with a webcam stream and a video element, so that
\* the frame-processing effect runs.  A loop is one chain of processFrame
\* calls; it belongs to the run of the effect that started it (current:
\* that run has not been cleaned up) and closes over that render's
\* isInitialized (init).
MaxLoops == 3          \* loops alive at the same time

LoopIds == 1..MaxLoops

Loop(id, at, current, init) ==
  [id |-> id, at |-> at, current |-> current, init |-> init]

FreeLoopId(ls) == CHOOSE i \in LoopIds \ { l.id : l \in ls } :
                    \A j \in LoopIds \ { l.id : l \in ls } : i <= j

NoFrame == [kind |-> "none", next |-> "none"]

FrameOutcome(kind, next) == [kind |-> kind, next |-> next]

\* cancelAnimationFrame(animationFrameRef.current)
CancelFrame(ls, ref) == { l \in ls : ~(l.at = "raf" /\ l.id = ref) }

\* The cleanup of the frame-processing effect: cancels the frame
\* animationFrameRef names; video.pause() rejects a pending play() promise;
\* what is left belongs to a run that is over.
FrameCleanup(ls, ref) ==
  { [l EXCEPT !.current = FALSE] : l \in { k \in CancelFrame(ls, ref) :
                                            k.at # "play" } }

\* The frame-processing effect runs: video.srcObject = webcamStream and
\* video.play(), whose fulfilment starts processFrame.
FrameStart(ls, init) ==
  ls \cup { Loop(FreeLoopId(ls), "play", TRUE, init) }

\* a change of isInitialized or webcamStream: cleanup, then the effect
FrameEffect(ls, ref, init) == FrameStart(FrameCleanup(ls, ref), init)

SendsWhileUnflagged(l) == l.init /\ poseRef

\* if (isInitialized && poseRef.current && !hasErroredRef.current)
Sends(l) == l.init /\ poseRef /\ ~hasErrored

\* One call of processFrame by loop l, up to its await or its end.  ready:
\* the video has enough data; drawThrows: the fallback draw throws.
ProcessFrame(l, ready, drawThrows) ==
  LET rest == loops \ {l}
      wasNamed == animationFrameRef = l.id
  IN  /\ ready => mpMounted
      /\ drawThrows => ready /\ ~Sends(l)
      /\ IF ready /\ Sends(l)
           THEN /\ loops' = rest \cup {[l EXCEPT !.at = "send"]}
                /\ animationFrameRef' = IF wasNamed THEN 0
                                        ELSE animationFrameRef
                /\ lastFrame' = FrameOutcome("send", "send")
         ELSE IF drawThrows
           THEN /\ loops' = rest
                /\ animationFrameRef' = IF wasNamed THEN 0
                                        ELSE animationFrameRef
                /\ lastFrame' = FrameOutcome("raw", "none")
         ELSE /\ loops' = rest \cup {[l EXCEPT !.at = "raf"]}
              /\ animationFrameRef' = l.id
              /\ lastFrame' = FrameOutcome(IF ready THEN "raw" ELSE "skipped",
                                           "raf")
      /\ UNCHANGED <<mpMounted, initPose, isInitialized, poseRef, hasErrored,
                     sendThrew>>

\* the browser runs the animation frame of loop l
AnimationFrame(l, ready, drawThrows) ==
  /\ l \in loops /\ l.at = "raf"
  /\ ProcessFrame(l, ready, drawThrows)

\* video.play() of loop l is fulfilled: processFrame()
PlayFulfilled(l, ready, drawThrows) ==
  /\ l \in loops /\ l.at = "play"
  /\ ProcessFrame(l, ready, drawThrows)

\* video.play() is rejected (autoplay refused): logged, no loop
PlayRejected(l) ==
  /\ l \in loops /\ l.at = "play"
  /\ loops' = loops \ {l}
  /\ lastFrame' = NoFrame
  /\ UNCHANGED <<mpMounted, initPose, isInitialized, poseRef, hasErrored,
                 animationFrameRef, sendThrew>>

\* send() of loop l returns (onResults has drawn the results, catching its
\* own exceptions): frameCount++, requestAnimationFrame(processFrame)
SendReturns(l) ==
  /\ l \in loops /\ l.at = "send"
  /\ loops' = (loops \ {l}) \cup {[l EXCEPT !.at = "raf"]}
  /\ animationFrameRef' = l.id
  /\ lastFrame' = FrameOutcome("results", "raf")
  /\ UNCHANGED <<mpMounted, initPose, isInitialized, poseRef, hasErrored,
                 sendThrew>>

\* send() of loop l throws: the catch sets hasErroredRef and
\* setIsInitialized(false), the loop requests its next frame, and the
\* render that follows re-runs the effect if isInitialized changed
SendThrows(l) ==
  /\ l \in loops /\ l.at = "send"
  /\ hasErrored' = TRUE
  /\ sendThrew' = TRUE
  /\ lastFrame' = FrameOutcome("threw", "raf")
  /\ LET scheduled == (loops \ {l}) \cup {[l EXCEPT !.at = "raf"]}
     IN  IF mpMounted /\ isInitialized
           THEN /\ isInitialized' = FALSE
                /\ loops' = FrameEffect(scheduled, l.id, FALSE)
                /\ animationFrameRef' = 0
           ELSE /\ loops' = scheduled
                /\ animationFrameRef' = l.id
                /\ UNCHANGED isInitialized
  /\ UNCHANGED <<mpMounted, initPose, poseRef>>

\* initializePose completes: poseRef.current = pose, setIsInitialized(true)
InitializePoseDone ==
  /\ initPose = "pending"
  /\ Cardinality(loops) < MaxLoops
  /\ initPose' = "done"
  /\ lastFrame' = NoFrame
  /\ IF mpMounted
       THEN /\ poseRef' = TRUE
            /\ isInitialized' = TRUE
            /\ loops' = FrameEffect(loops, animationFrameRef, TRUE)
            /\ animationFrameRef' = 0
       ELSE /\ poseRef' = TRUE
            /\ UNCHANGED <<isInitialized, loops, animationFrameRef>>
  /\ UNCHANGED <<mpMounted, hasErrored, sendThrew>>

\* initializePose fails: setIsInitialized(false)
InitializePoseFails ==
  /\ initPose = "pending"
  /\ initPose' = "failed"
  /\ lastFrame' = NoFrame
  /\ UNCHANGED <<mpMounted, isInitialized, poseRef, hasErrored,
                 animationFrameRef, loops, sendThrew>>

\* webcamStream changes (a later getUserMedia call is granted)
StreamChanged ==
  /\ mpMounted
  /\ Cardinality(loops) < MaxLoops
  /\ loops' = FrameEffect(loops, animationFrameRef, isInitialized)
  /\ animationFrameRef' = 0
  /\ lastFrame' = NoFrame
  /\ UNCHANGED <<mpMounted, initPose, isInitialized, poseRef, hasErrored,
                 sendThrew>>

\* the component unmounts: the cleanups of both effects
MpUnmount ==
  /\ mpMounted
  /\ mpMounted' = FALSE
  /\ poseRef' = FALSE
  /\ loops' = FrameCleanup(loops, animationFrameRef)
  /\ animationFrameRef' = 0
  /\ lastFrame' = NoFrame
  /\ UNCHANGED <<initPose, isInitialized, hasErrored, sendThrew>>

\* the hook after its first render with a stream: initializePose is under
\* way and the frame-processing effect has called video.play()
LoopInit ==
  /\ mpMounted = TRUE /\ initPose = "pending"
  /\ isInitialized = FALSE /\ poseRef = FALSE /\ hasErrored = FALSE
  /\ animationFrameRef = 0
  /\ loops = { Loop(1, "play", TRUE, FALSE) }
  /\ lastFrame = NoFrame
  /\ sendThrew = FALSE

LoopNext ==
  \/ \E l \in loops, ready \in BOOLEAN, drawThrows \in BOOLEAN :
       AnimationFrame(l, ready, drawThrows) /\ UNCHANGED notLoopVars
  \/ \E l \in loops, ready \in BOOLEAN, drawThrows \in BOOLEAN :
       PlayFulfilled(l, ready, drawThrows) /\ UNCHANGED notLoopVars
  \/ \E l \in loops : PlayRejected(l) /\ UNCHANGED notLoopVars
  \/ \E l \in loops : SendReturns(l) /\ UNCHANGED notLoopVars
  \/ \E l \in loops : SendThrows(l) /\ UNCHANGED notLoopVars
  \/ InitializePoseDone /\ UNCHANGED notLoopVars
  \/ InitializePoseFails /\ UNCHANGED notLoopVars
  \/ StreamChanged /\ UNCHANGED notLoopVars
  \/ MpUnmount /\ UNCHANGED notLoopVars

\* --------------------------------- ProjectView: waiting for the landmarks
\* maxAttempts = 60
MaxAttempts == 60

\* the finally block of waitForLandmarks, then init() after the await:
\* lm is what waitForLandmarks returned ("data", "null") or "throw"
AfterWait(lm) ==
  /\ isProcessingLandmarks' = FALSE
  /\ IF lm = "throw"
       THEN /\ initPhase' = "rejected"
            /\ UNCHANGED <<landmarks, pageIsLoading>>
     ELSE IF cancelled
       THEN /\ initPhase' = "cancelled"
            /\ UNCHANGED <<landmarks, pageIsLoading>>
     ELSE IF lm = "null"
       THEN /\ initPhase' = "done"
            /\ landmarks' = FALSE
            /\ pageIsLoading' = FALSE
     ELSE /\ initPhase' = "videoUrl"
          /\ landmarks' = TRUE
          /\ UNCHANGED pageIsLoading

\* the head of the for loop with attempt = n: the timeout after the last
\* attempt, the cancellation check, or the next fetch
Iteration(n) ==
  IF n >= MaxAttempts
    THEN /\ AfterWait("null")
         /\ UNCHANGED <<requestsSent, sentAfterCancel>>
  ELSE IF cancelled
    THEN /\ AfterWait("null")
         /\ UNCHANGED <<requestsSent, sentAfterCancel>>
  ELSE /\ initPhase' = "fetching"
       /\ requestsSent' = requestsSent + 1
       /\ sentAfterCancel' = (sentAfterCancel \/ cancelled)
       /\ UNCHANGED <<isProcessingLandmarks, landmarks, pageIsLoading>>

LandmarkStatuses == {202, 200, 404}

\* the landmarks request is answered
LandmarksResponse(status) ==
  /\ initPhase = "fetching"
  /\ IF status = 202
       THEN /\ initPhase' = "sleeping"
            /\ UNCHANGED <<isProcessingLandmarks, landmarks, pageIsLoading>>
     ELSE IF status # 200
       THEN AfterWait("null")
     ELSE /\ initPhase' = "json"
          /\ UNCHANGED <<isProcessingLandmarks, landmarks, pageIsLoading>>
  /\ UNCHANGED <<cancelled, attempt, requestsSent, sentAfterCancel>>

\* fetch rejects (network error): no catch, the finally block runs and the
\* rejection leaves waitForLandmarks and init
LandmarksFetchThrows ==
  /\ initPhase = "fetching"
  /\ AfterWait("throw")
  /\ UNCHANGED <<cancelled, attempt, requestsSent, sentAfterCancel>>

\* res.json() yields the body (an object, or null for the body "null")
\* or rejects
LandmarksJson(lm) ==
  /\ initPhase = "json"
  /\ AfterWait(lm)
  /\ UNCHANGED <<cancelled, attempt, requestsSent, sentAfterCancel>>

\* sleep(intervalMs) ends: attempt++ and the next iteration
SleepEnds ==
  /\ initPhase = "sleeping"
  /\ attempt' = attempt + 1
  /\ Iteration(attempt + 1)
  /\ UNCHANGED cancelled

\* getVideoUrl returns (a URL or null; it catches its own exceptions)
VideoUrlReturns ==
  /\ initPhase = "videoUrl"
  /\ IF cancelled
       THEN initPhase' = "cancelled" /\ UNCHANGED pageIsLoading
       ELSE initPhase' = "done" /\ pageIsLoading' = FALSE
  /\ UNCHANGED <<cancelled, attempt, isProcessingLandmarks, landmarks,
                 requestsSent, sentAfterCancel>>

\* the effect's cleanup (unmount or a new projectId)
CancelInit ==
  /\ ~cancelled
  /\ cancelled' = TRUE
  /\ UNCHANGED <<attempt, initPhase, isProcessingLandmarks, landmarks,
                 pageIsLoading, requestsSent, sentAfterCancel>>

\* the effect has run: init() called waitForLandmarks, which set
\* isProcessingLandmarks and sent the first request
WaitInit ==
  /\ cancelled = FALSE /\ attempt = 0
  /\ initPhase = "fetching"
  /\ isProcessingLandmarks = TRUE
  /\ landmarks = FALSE
  /\ pageIsLoading = TRUE
  /\ requestsSent = 1
  /\ sentAfterCancel = FALSE

WaitNext ==
  \/ \E status \in LandmarkStatuses :
       LandmarksResponse(status) /\ UNCHANGED notWaitVars
  \/ LandmarksFetchThrows /\ UNCHANGED notWaitVars
  \/ \E lm \in {"data", "null", "throw"} :
       LandmarksJson(lm) /\ UNCHANGED notWaitVars
  \/ SleepEnds /\ UNCHANGED notWaitVars
  \/ VideoUrlReturns /\ UNCHANGED notWaitVars
  \/ CancelInit /\ UNCHANGED notWaitVars

\* ------------------------------------------- ProjectView: the clip editor
MAX_ROW == 4
MIN_CLIP_SIZE == 2
\* the timeline runs from 0 to 100 (percent of the video)
TimelineEnd == 100

\* the editor operations explored from the page's first render
MaxOps == 5

NaN == 0 - 2

Clip(row, start, end) == [row |-> row, start |-> start, end |-> end]

DigitChars == <<"0", "1", "2", "3", "4", "5", "6", "7", "8", "9">>

\* Number.prototype.toString for a non-negative integer, as characters
RECURSIVE ToChars(_)
ToChars(n) ==
  IF n < 10 THEN <<DigitChars[n + 1]>>
  ELSE Append(ToChars(n \div 10), DigitChars[(n % 10) + 1])

\* String.prototype.charAt
CharAt(str, i) == IF i + 1 <= Len(str) THEN str[i + 1] ELSE ""

IsDigit(ch) == \E d \in 1..10 : DigitChars[d] = ch

DigitValue(ch) == (CHOOSE d \in 1..10 : DigitChars[d] = ch) - 1

\* parseInt(ch, 10) of a string of at most one character
ParseInt(ch) == IF IsDigit(ch) THEN DigitValue(ch) ELSE NaN

\* number == string of at most one character: the string is converted
\* with Number(), and Number("") is 0
LooseEquals(n, ch) ==
  IF ch = "" THEN n = 0 ELSE IsDigit(ch) /\ n = DigitValue(ch)

\* clips.get(id) is defined
Has(map, id) == id \in DOMAIN map

Delete(map, id) == [k \in DOMAIN map \ {id} |-> map[k]]

Set(map, id, clip) ==
  [k \in DOMAIN map \cup {id} |-> IF k = id THEN clip ELSE map[k]]

\* the test of addClip's inner loop
ConflictsWithoutGap(clip, start, end) ==
  clip.start < end /\ start < clip.end

Conflicts(clip, start, end) ==
  clip.start < end + 1 /\ start < clip.end + 1

\* the rows addClip's outer loop does not skip
FreeRows(map, start, end) ==
  { i \in 1..(MAX_ROW - 1) :
      \A id \in DOMAIN map :
        map[id].row = i => ~Conflicts(map[id], start, end) }

\* the row addClip places the clip in; 0 when it returns null
FirstFreeRow(map, start, end) ==
  LET free == FreeRows(map, start, end)
  IN IF free = {} THEN 0 ELSE CHOOSE i \in free : \A j \in free : i <= j

\* observation of an operation that called addClip: whether it found a row
ClipOp(kind, row) == [kind |-> kind, placed |-> row # 0]

NoClipOp == [kind |-> "none", placed |-> FALSE]

NoDrag == [type |-> "none", clipId |-> NaN]

\* a click, a double click or a mousedown needs the mouse button up
MouseButtonUp == isDragging.type = "none"

\* addClip(start, end): a new clip under the id nextClipId
AddClipNew(kind, start, end) ==
  LET row == FirstFreeRow(clips, start, end)
  IN /\ lastClipOp' = ClipOp(kind, row)
     /\ IF row = 0
          THEN UNCHANGED <<clips, nextClipId>>
          ELSE /\ clips' = Set(clips, nextClipId, Clip(row, start, end))
               /\ nextClipId' = nextClipId + 1

\* addClip(start, end, map, clipId): clip clipId put back into map
AddClipInto(kind, start, end, map, clipId) ==
  LET row == FirstFreeRow(map, start, end)
  IN /\ lastClipOp' = ClipOp(kind, row)
     /\ clips' = IF row = 0 THEN clips
                 ELSE Set(map, clipId, Clip(row, start, end))
     /\ UNCHANGED nextClipId

\* a handler that returns early or throws: nothing is set
NoEffect ==
  /\ lastClipOp' = NoClipOp
  /\ UNCHANGED <<clips, nextClipId>>

\* the ranges newClipObj holds when the new clip is confirmed (it starts
\* as 0..100 and each arrow key moves one side by 1, keeping start < end)
NewClipRanges == {<<0, 50>>, <<50, 100>>, <<51, 100>>}

\* addNewClip: Enter on the new clip in status 2, or its blur
AddNewClip(start, end) ==
  /\ AddClipNew("addNewClip", start, end)
  /\ UNCHANGED <<resizing, editorClipId, currentClipBeingDraggedId,
                 isDragging, dragClosure, dragInit, resizeTarget>>

\* handleClick on the rendered clip id
HandleClick(id) ==
  /\ MouseButtonUp
  /\ Has(clips, id)
  /\ editorClipId' = id
  /\ NoEffect
  /\ UNCHANGED <<resizing, currentClipBeingDraggedId, isDragging,
                 dragClosure, dragInit, resizeTarget>>

\* handleDelete (the button is disabled without a selection)
HandleDelete ==
  /\ editorClipId # Undefined /\ editorClipId # 0
  /\ clips' = Delete(clips, editorClipId)
  /\ lastClipOp' = NoClipOp
  /\ UNCHANGED <<nextClipId, resizing, editorClipId,
                 currentClipBeingDraggedId, isDragging, dragClosure,
                 dragInit, resizeTarget>>

\* handleResize(clipId), from a double click on the rendered clip
HandleResize(clipId) ==
  /\ MouseButtonUp
  /\ Has(clips, clipId)
  /\ NoEffect
  /\ IF clipId = 0
       THEN UNCHANGED <<resizing, currentClipBeingDraggedId, resizeTarget>>
       ELSE /\ resizing' = TRUE
            /\ currentClipBeingDraggedId' = Append(ToChars(clipId), "l")
            /\ resizeTarget' = clipId
  /\ UNCHANGED <<editorClipId, isDragging, dragClosure, dragInit>>

\* moveLeft
MoveLeft ==
  LET clipId == ParseInt(CharAt(currentClipBeingDraggedId, 0))
      side == CharAt(currentClipBeingDraggedId, 1)
  IN IF ~resizing \/ ~Has(clips, clipId)     \* returns, or oldClip.start throws
       THEN NoEffect
     ELSE LET oldClip == clips[clipId]
              newClips == Delete(clips, clipId)
          IN IF side = "l"
               THEN AddClipInto("key", Max(oldClip.start - 1, 0),
                                oldClip.end, newClips, clipId)
             ELSE IF oldClip.end - 1 <= oldClip.start
               THEN NoEffect
             ELSE AddClipInto("key", oldClip.start, oldClip.end - 1,
                              newClips, clipId)

\* moveRight
MoveRight ==
  LET clipId == ParseInt(CharAt(currentClipBeingDraggedId, 0))
      side == CharAt(currentClipBeingDraggedId, 1)
  IN IF ~resizing \/ ~Has(clips, clipId)
       THEN NoEffect
     ELSE LET oldClip == clips[clipId]
              newClips == Delete(clips, clipId)
          IN IF side = "l"
               THEN IF oldClip.start + 1 >= oldClip.end
                      THEN NoEffect
                      ELSE AddClipInto("key", oldClip.start + 1,
                                       oldClip.end, newClips, clipId)
             ELSE IF oldClip.end + 1 > TimelineEnd
               THEN NoEffect
             ELSE AddClipInto("key", oldClip.start, oldClip.end + 1,
                              newClips, clipId)

ClipKeys == {"Enter", "ArrowLeft", "ArrowRight"}

\* handleKeyDown(e, clipId) on the rendered clip clipId
HandleKeyDown(clipId, key) ==
  /\ Has(clips, clipId)
  /\ IF key = "Enter"
       THEN /\ currentClipBeingDraggedId' = <<"x", "x">>
            /\ editorClipId' = Undefined
            /\ resizeTarget' = Undefined
            /\ NoEffect
     ELSE IF key \notin {"ArrowRight", "ArrowLeft"}
             \/ ~LooseEquals(clipId, CharAt(currentClipBeingDraggedId, 0))
       THEN /\ NoEffect
            /\ UNCHANGED <<currentClipBeingDraggedId, editorClipId,
                           resizeTarget>>
     ELSE /\ IF key = "ArrowRight" THEN MoveRight ELSE MoveLeft
          /\ UNCHANGED <<currentClipBeingDraggedId, editorClipId,
                         resizeTarget>>
  /\ UNCHANGED <<resizing, isDragging, dragClosure, dragInit>>

\* getBoundingClientRect of a rendered clip, for a footer 2000 pixels wide
\* at x = 0: left = start * (19/20) + 2.5 percent, width = (end - start) *
\* (19/20) percent
ClipLeft(clip) == 19 * clip.start + 50
ClipWidth(clip) == 19 * (clip.end - clip.start)

\* calculatePercent
CalculatePercent(clipStart, clipEnd, clipX, clipWidth, newX) ==
  LET pixelPerPerecent == clipWidth \div (clipEnd - clipStart)
      pixelZero == clipX - clipStart * pixelPerPerecent
  IN (newX - pixelZero) \div pixelPerPerecent

\* e.clientX of the mouse events: the pixels of -5, 40 and 110 percent
MouseClientXs == {19 * p + 50 : p \in {0 - 5, 40, 110}}

NoClosure ==
  [clips |-> [k \in {} |-> Clip(0, 0, 0)], draggedId |-> <<"x", "x">>]

NoDragInit == [start |-> 0, end |-> 0, x |-> 0, width |-> 0, percent |-> 0]

\* initializeDrag(type, e), and the effect on [isDragging] that installs
\* the mousemove listener of this render
InitializeDrag(type, clientX) ==
  LET clipId == ParseInt(CharAt(currentClipBeingDraggedId, 0))
  IN /\ NoEffect
     /\ IF ~Has(clips, clipId)
          THEN UNCHANGED <<isDragging, dragClosure, dragInit>>
          ELSE LET clip == clips[clipId]
               IN /\ isDragging' = [type |-> type, clipId |-> clipId]
                  /\ dragInit' =
                       [start |-> clip.start, end |-> clip.end,
                        x |-> ClipLeft(clip), width |-> ClipWidth(clip),
                        percent |-> CalculatePercent(clip.start, clip.end,
                                      ClipLeft(clip), ClipWidth(clip),
                                      clientX)]
                  /\ dragClosure' =
                       [clips |-> clips,
                        draggedId |-> currentClipBeingDraggedId]
     /\ UNCHANGED <<resizing, editorClipId, currentClipBeingDraggedId,
                    resizeTarget>>

\* mouseDownOnHandle(side): the handles are rendered next to the clip
\* whose id == currentClipBeingDraggedId.charAt(0)
MouseDownOnHandle(side, clientX) ==
  /\ MouseButtonUp
  /\ \E id \in DOMAIN clips :
       LooseEquals(id, CharAt(currentClipBeingDraggedId, 0))
  /\ InitializeDrag(side, clientX)

\* mouseDownOnClip(clipId), outside the handles: only that clip has it
MouseDownOnClip(clipId, clientX) ==
  /\ MouseButtonUp
  /\ Has(clips, clipId)
  /\ LooseEquals(clipId, CharAt(currentClipBeingDraggedId, 0))
  /\ IF ParseInt(CharAt(currentClipBeingDraggedId, 0)) = clipId
       THEN InitializeDrag("move", clientX)
       ELSE /\ NoEffect
            /\ UNCHANGED <<resizing, editorClipId, currentClipBeingDraggedId,
                           isDragging, dragClosure, dragInit, resizeTarget>>

\* handleMoveLeft, handleMoveRight, handleDrag on the clip of the closure;
\* handleDrag assigns the undeclared actualDelta when the clip would pass
\* the end of the timeline, which throws in module code: field throws
Resized(start, end) == [throws |-> FALSE, start |-> start, end |-> end]

Throws == [throws |-> TRUE, start |-> 0, end |-> 0]

HandleMoveLeft(clip, deltaPercent) ==
  Resized(Min(Max(0, clip.start + deltaPercent), clip.end - MIN_CLIP_SIZE),
          clip.end)

HandleMoveRight(clip, deltaPercent) ==
  Resized(clip.start,
          Max(Min(TimelineEnd, clip.end + deltaPercent),
              clip.start + MIN_CLIP_SIZE))

HandleDrag(clip, deltaPercent) ==
  IF clip.start + deltaPercent < 0
    THEN Resized(0, clip.end - clip.start)
  ELSE IF clip.end + deltaPercent > TimelineEnd
    THEN Throws
  ELSE Resized(clip.start + deltaPercent, clip.end + deltaPercent)

\* handleMouseMoving(e): the listener of the render that started the drag
HandleMouseMoving(clientX) ==
  /\ isDragging.type # "none"
  /\ LET newPercent == CalculatePercent(dragInit.start, dragInit.end,
                                        dragInit.x, dragInit.width, clientX)
         clipId == ParseInt(CharAt(dragClosure.draggedId, 0))
         oldClip == dragClosure.clips[clipId]
         newClips == Delete(dragClosure.clips, clipId)
         resizedClip ==
           IF isDragging.type = "left"
             THEN HandleMoveLeft(oldClip, newPercent - oldClip.start)
           ELSE IF isDragging.type = "right"
             THEN HandleMoveRight(oldClip, newPercent - oldClip.end)
           ELSE HandleDrag(oldClip, newPercent - dragInit.percent)
     IN IF resizedClip.throws
          THEN NoEffect
          ELSE AddClipInto("mousemove", resizedClip.start, resizedClip.end,
                           newClips, clipId)
  /\ UNCHANGED <<resizing, editorClipId, currentClipBeingDraggedId,
                 isDragging, dragClosure, dragInit, resizeTarget>>

\* handleMouseUp; the effect's cleanup removes the listeners. The
\* dragInit* refs keep their values, which nothing reads before
\* initializeDrag writes them again: they are forgotten here
HandleMouseUp ==
  /\ isDragging.type # "none"
  /\ isDragging' = NoDrag
  /\ dragClosure' = NoClosure
  /\ dragInit' = NoDragInit
  /\ NoEffect
  /\ UNCHANGED <<resizing, editorClipId, currentClipBeingDraggedId,
                 resizeTarget>>

\* let nextClipId = 3 and the useState initial values
ClipInit ==
  /\ nextClipId = 3
  /\ clips = (0 :> Clip(0, 0, 100))
  /\ resizing = FALSE
  /\ editorClipId = Undefined
  /\ currentClipBeingDraggedId = <<"x", "x">>
  /\ isDragging = NoDrag
  /\ dragClosure = NoClosure
  /\ dragInit = NoDragInit
  /\ lastClipOp = NoClipOp
  /\ resizeTarget = Undefined
  /\ ops = 0

\* an operation counted against MaxOps
Counted == ops < MaxOps /\ ops' = ops + 1

ClipsNext ==
  \/ \E r \in NewClipRanges :
       AddNewClip(r[1], r[2]) /\ Counted /\ UNCHANGED notClipVars
  \/ \E id \in DOMAIN clips :
       HandleClick(id) /\ Counted /\ UNCHANGED notClipVars
  \/ HandleDelete /\ Counted /\ UNCHANGED notClipVars
  \/ \E id \in DOMAIN clips :
       HandleResize(id) /\ Counted /\ UNCHANGED notClipVars
  \/ \E id \in DOMAIN clips, key \in ClipKeys :
       HandleKeyDown(id, key) /\ Counted /\ UNCHANGED notClipVars
  \/ \E side \in {"left", "right"}, x \in MouseClientXs :
       MouseDownOnHandle(side, x) /\ Counted /\ UNCHANGED notClipVars
  \/ \E id \in DOMAIN clips, x \in MouseClientXs :
       MouseDownOnClip(id, x) /\ Counted /\ UNCHANGED notClipVars
  \/ \E x \in MouseClientXs :
       HandleMouseMoving(x) /\ Counted /\ UNCHANGED notClipVars
  \/ HandleMouseUp /\ Counted /\ UNCHANGED notClipVars

\* the ids the counter is followed to
ManyClipIds == 30

ArrowKeys == {"ArrowLeft", "ArrowRight"}

\* The editor used to cut many clips: the new clip is confirmed as it
\* appears (0 to 100) while at most one cut clip is kept, clips are
\* selected and deleted, the clips with the ids from ManyClipIds on are
\* double-clicked, and keys are pressed on the clips (the arrow keys are
\* counted against MaxOps)
ClipIdsNext ==
  \/ /\ nextClipId <= ManyClipIds
     /\ Cardinality(DOMAIN clips) <= 2
     /\ AddNewClip(0, 100) /\ UNCHANGED ops /\ UNCHANGED notClipVars
  \/ \E id \in DOMAIN clips :
       HandleClick(id) /\ UNCHANGED ops /\ UNCHANGED notClipVars
  \/ HandleDelete /\ UNCHANGED ops /\ UNCHANGED notClipVars
  \/ \E id \in DOMAIN clips :
       /\ id >= ManyClipIds
       /\ HandleResize(id) /\ UNCHANGED ops /\ UNCHANGED notClipVars
  \/ \E id \in DOMAIN clips :
       HandleKeyDown(id, "Enter") /\ UNCHANGED ops /\ UNCHANGED notClipVars
  \/ /\ resizing
     /\ \E id \in DOMAIN clips, key \in ArrowKeys :
          HandleKeyDown(id, key) /\ Counted /\ UNCHANGED notClipVars

\* The options ComparisonView passes: none.
NoOptions == Options(Undefined, Undefined, Undefined)

Idle == PoseIdle /\ CmpIdle /\ options = NoOptions /\ ViewInit

\* -------------------------------------------------------- specifications
InitHook ==
  HookInit /\ CamInit /\ Idle /\ PipInit /\ LoopInit /\ WaitInit /\ ClipInit

SpecHook == InitHook /\ [][HookNext]_vars

InitWebcam ==
  CamInit /\ HookInit /\ Idle /\ PipInit /\ LoopInit /\ WaitInit /\ ClipInit

InitPose ==
  PoseInit /\ HookInit /\ CamInit /\ CmpIdle /\ options = NoOptions
  /\ ViewInit /\ PipInit /\ LoopInit /\ WaitInit /\ ClipInit

SpecPose == InitPose /\ [][PoseNext]_vars

InitCompare ==
  CmpInit /\ HookInit /\ CamInit /\ PoseIdle /\ ViewInit /\ PipInit
  /\ LoopInit /\ WaitInit /\ ClipInit

SpecCompare == InitCompare /\ [][CmpNext]_vars

SpecWebcam == InitWebcam /\ [][CamNext]_vars

InitView ==
  ViewInit /\ HookInit /\ CamInit /\ PoseIdle /\ CmpIdle
  /\ options = NoOptions /\ PipInit /\ LoopInit /\ WaitInit /\ ClipInit

SpecView == InitView /\ [][ViewNext]_vars

InitPip ==
  PipInit /\ ViewInit /\ HookInit /\ CamInit /\ PoseIdle /\ CmpIdle
  /\ LoopInit /\ WaitInit /\ ClipInit
  /\ options = NoOptions

SpecPip == InitPip /\ [][PipNext]_vars

InitLoop ==
  LoopInit /\ PipInit /\ ViewInit /\ HookInit /\ CamInit /\ PoseIdle
  /\ CmpIdle /\ WaitInit /\ ClipInit
  /\ options = NoOptions

SpecLoop == InitLoop /\ [][LoopNext]_vars

InitWait ==
  WaitInit /\ LoopInit /\ PipInit /\ ViewInit /\ HookInit /\ CamInit
  /\ PoseIdle /\ ClipInit
  /\ CmpIdle /\ options = NoOptions

SpecWait == InitWait /\ [][WaitNext]_vars

InitClips ==
  ClipInit /\ WaitInit /\ LoopInit /\ PipInit /\ ViewInit /\ HookInit /\ CamInit
  /\ PoseIdle /\ CmpIdle /\ options = NoOptions

SpecClips == InitClips /\ [][ClipsNext]_vars

SpecClipIds == InitClips /\ [][ClipIdsNext]_vars


\* --------------------------------------------- syncPose on any track
\* All landmark tracks of at most MaxFrames frames with timestamps in
\* Times, in any order, in which at most one frame has no landmarks array.
TracksOfLen(n) ==
  { [i \in 1..n |-> Frame(i - 1, ts[i], i # hole)] :
      ts \in [1..n -> Times], hole \in 0..n }

AnyTracks == UNION { TracksOfLen(n) : n \in 0..MaxFrames }

\* The hook with the track of project 1 loaded from a 200 response and a
\* video element at the start of playback: the sync effect has run and
\* called continuousSync once.
SyncPoseInit ==
  /\ projectId = 1 /\ isActive = TRUE /\ videoElement = TRUE
  /\ hookMounted = TRUE
  /\ \E fr \in AnyTracks :
       allLandmarks = [status |-> 200, project |-> 1, frames |-> fr]
  /\ currentTime = 0
  /\ currentPose = SyncPose(allLandmarks, 0, NullPose)
  /\ loading = FALSE /\ error = "null"
  /\ fetches = EmptyBag
  /\ animationFrameId = 1 /\ rafQueue = {Callback(1, TRUE, allLandmarks)}
  /\ lastTick = [ran |-> TRUE, live |-> TRUE,
                 sel |-> ClosestFrame(allLandmarks.frames, 0)]

SyncPoseNext ==
  \/ \E c \in rafQueue : Tick(c) /\ UNCHANGED notHookVars
  \/ \E t \in Times : AdvanceVideo(t) /\ UNCHANGED notHookVars

InitSyncPose ==
  SyncPoseInit /\ CamInit /\ Idle /\ PipInit /\ LoopInit /\ WaitInit
  /\ ClipInit

SpecSyncPose == InitSyncPose /\ [][SyncPoseNext]_vars

\* ------------------------------------------------------------ claims
TimeDiff(i) == Abs(allLandmarks.frames[i].time - currentTime)

\* C1: after a synchronizer tick over a non-empty track, the selected
\* frame has the minimal |frame.time - t| of the track and is the first
\* such frame in track order; the pose published from it is that frame
\* itself (its own index and timestamp, nothing interpolated).
C1_NearestFirst ==
  (lastTick.ran /\ lastTick.live /\ Len(allLandmarks.frames) > 0) =>
    LET n == Len(allLandmarks.frames)
        sel == lastTick.sel
    IN /\ sel \in 1..n
       /\ \A j \in 1..n : TimeDiff(sel) <= TimeDiff(j)
       /\ \A j \in 1..(sel - 1) : TimeDiff(j) > TimeDiff(sel)
       /\ allLandmarks.frames[sel].landmarks =>
            /\ currentPose.set
            /\ currentPose.frame = allLandmarks.frames[sel].frame
            /\ currentPose.time = allLandmarks.frames[sel].time

\* C1 witness: a tick selected the first of two equally near frames that
\* lie on both sides of the playback time.
C1_Witness ==
  /\ lastTick.ran /\ lastTick.sel # 0
  /\ \E j \in 1..Len(allLandmarks.frames) :
       /\ j > lastTick.sel
       /\ TimeDiff(j) = TimeDiff(lastTick.sel)
       /\ allLandmarks.frames[j].time # allLandmarks.frames[lastTick.sel].time
  /\ currentPose.set /\ currentPose.time = allLandmarks.frames[lastTick.sel].time

\* C2 (as claimed): the landmark track is never the body of a 202
\* response.
C2_No202AsTrack == allLandmarks.status # 202

\* C3 (as claimed): when a landmark request settles whose effect run was
\* torn down before (project id changed, or the view unmounted), the
\* hook's allLandmarks, error and loading keep their values.
C3_NoWriteAfterTeardown ==
  [][ \A f \in InFlight :
        (f.torn /\ CopiesIn(f, fetches') < CopiesIn(f, fetches)) =>
          UNCHANGED <<allLandmarks, error, loading>> ]_vars

\* C4 (as claimed): once the webcam hook is torn down, no stream it
\* acquired has live tracks.
C4_StreamsStoppedAfterTeardown == ~camMounted => liveStreams = {}

\* C5: every scheduled animation-frame callback belongs to the current
\* instance of the sync effect of a mounted hook and is the one whose
\* handle the instance holds, and no tick runs for a loop whose effect
\* was cleaned up.
C5_NoTickAfterCleanup ==
  /\ \A c \in rafQueue : c.live /\ hookMounted /\ c.id = animationFrameId
  /\ lastTick.ran => lastTick.live

\* C5 witness: the view unmounted while the synchronizer loop was running
\* (track loaded, video element present, active, a pose published).
C5_Witness ==
  /\ ~hookMounted /\ allLandmarks.status = 200 /\ videoElement /\ isActive
  /\ currentPose.set /\ rafQueue = {}

\* The track of the current project has been loaded and has frames.
TrackLoaded ==
  /\ allLandmarks.status = 200 /\ allLandmarks.project = projectId
  /\ Len(allLandmarks.frames) > 0

\* C6 (as claimed): while the track of the current project is empty or not
\* loaded, currentPose is null.
C6_NoPoseWithoutTrack == ~TrackLoaded => ~currentPose.set

\* C7 (as claimed): loading and error are never set together.
C7_ErrorNotWhileLoading == ~(loading /\ error # "null")

\* A hip keypoint of the frame is missing or has a confidence below 0.3.
HipUndetected(frame) ==
  \/ Len(frame) < 24 \/ frame[24].score < 30
  \/ Len(frame) < 25 \/ frame[25].score < 30

\* C8: calculatePoseSimilarity called on two frames of which one has a
\* missing or low-confidence hip returns the score 0 (a number) with the
\* reason 'Cannot normalize poses'.
C8_CannotNormalize ==
  ( /\ similarity # NoResult
    /\ ~livePoseKeypoints.null /\ ~referencePoseKeypoints.null
    /\ \/ HipUndetected(livePoseKeypoints.kps)
       \/ HipUndetected(referencePoseKeypoints.kps) )
  => similarity = [score |-> 0, error |-> "Cannot normalize poses"]

\* C8 witness: the comparator was called with a live frame whose hips are
\* detected and a reference frame of 33 keypoints whose left hip is
\* detected and whose right hip has confidence 0.29, and reported that it
\* cannot normalize.
C8_Witness ==
  /\ similarity.error = "Cannot normalize poses"
  /\ ~livePoseKeypoints.null /\ ~referencePoseKeypoints.null
  /\ ~HipUndetected(livePoseKeypoints.kps)
  /\ Len(referencePoseKeypoints.kps) = 33
  /\ referencePoseKeypoints.kps[24].score = 90
  /\ referencePoseKeypoints.kps[25].score = 29
  /\ referencePoseKeypoints.kps[24].x # referencePoseKeypoints.kps[25].x

\* Both poses of the last tick carry keypoints.
BothKeypoints ==
  /\ ~livePose.null /\ ~referencePose.null
  /\ ~livePose.keypoints.null /\ ~referencePose.keypoints.null

\* C9 (as claimed): after a tick on which a hip of either frame is missing
\* or low-confidence, the published combinedScore is 0 and so is the
\* value the tick appended to the score history.
C9_ZeroOnNormalizationFailure ==
  ( /\ BothKeypoints
    /\ \/ HipUndetected(livePose.keypoints.kps)
       \/ HipUndetected(referencePose.keypoints.kps) )
  => /\ ~comparisonResult.null
     /\ comparisonResult.combinedScore = 0
     /\ statistics.scoreHistory # << >> =>
          statistics.scoreHistory[Len(statistics.scoreHistory)] = 0

\* The comparator was called on one and the same frame of 33 keypoints
\* whose hips have a confidence of at least 0.3.
SelfComparison ==
  /\ similarity # NoResult
  /\ ~livePoseKeypoints.null
  /\ referencePoseKeypoints = livePoseKeypoints
  /\ Len(livePoseKeypoints.kps) = 33
  /\ livePoseKeypoints.kps[24].score >= 30
  /\ livePoseKeypoints.kps[25].score >= 30

\* C10 (as claimed): comparing a 33-keypoint frame whose hips have a
\* confidence of at least 0.3 with itself scores 100.
C10_SelfScore100 == SelfComparison => similarity.score = 1000

\* C10 (amended): comparing a 33-keypoint frame with itself scores 100
\* when its hips have a confidence of at least 0.3 and lie at different
\* positions and at least one of its keypoints has a confidence above 0.3.
C10_SelfScore100IfComparable ==
  ( /\ SelfComparison
    /\ \/ livePoseKeypoints.kps[24].x # livePoseKeypoints.kps[25].x
       \/ livePoseKeypoints.kps[24].y # livePoseKeypoints.kps[25].y
    /\ \E k \in 1..33 : livePoseKeypoints.kps[k].score > 30 )
  => similarity = [score |-> 1000, error |-> "none"]

\* C10 witness: a frame whose left hip has a confidence of exactly 0.3 and
\* whose other keypoints are above it was compared with itself and scored
\* 100.
C10_Witness ==
  /\ SelfComparison
  /\ livePoseKeypoints.kps[24].score = 30
  /\ livePoseKeypoints.kps[1].score > 30
  /\ similarity.score = 1000

\* The comparator was called on two frames of 33 keypoints whose hips
\* have a confidence of at least 0.3.
TwoFramesWithHips ==
  /\ similarity # NoResult
  /\ ~livePoseKeypoints.null /\ ~referencePoseKeypoints.null
  /\ \A f \in {livePoseKeypoints.kps, referencePoseKeypoints.kps} :
       Len(f) = 33 /\ f[24].score >= 30 /\ f[25].score >= 30

\* C11: the score of two 33-keypoint frames with hip confidences of at
\* least 0.3 is the score of the same two frames in the other order.
C11_Symmetric ==
  TwoFramesWithHips =>
    similarity.score =
      CalculatePoseSimilarity(referencePoseKeypoints, livePoseKeypoints).score

\* C11 witness: two frames with different arm positions and different
\* hip confidences were compared and scored strictly between 0 and 100.
C11_Witness ==
  /\ TwoFramesWithHips
  /\ livePoseKeypoints.kps[16] # referencePoseKeypoints.kps[16]
  /\ livePoseKeypoints.kps[24].score # referencePoseKeypoints.kps[24].score
  /\ similarity.score > 0 /\ similarity.score < 1000

\* The weight a tick is claimed to use: the configured value, or the
\* default when none is configured.
ConfiguredWeight(v, default) == IF v = Undefined THEN default ELSE v

\* C12 (as claimed): after a tick with keypoints in both poses, the
\* published combinedScore is poseSimilarityWeight x similarity score +
\* angleWeight x joint-angle score rounded to one decimal, with the
\* configured weights, or 0.6 and 0.4 when none are configured.
C12_WeightedBlend ==
  BothKeypoints =>
    comparisonResult.combinedScore =
      Round(comparisonResult.score
              * ConfiguredWeight(options.poseSimilarityWeight, 6)
            + angleComparison.score
              * ConfiguredWeight(options.angleWeight, 4), 10)

\* The capacity of the score history: the configured historyLimit, or 100.
Capacity == IF options.historyLimit = Undefined THEN 100 ELSE options.historyLimit

\* The last k entries of a sequence.
LastOf(q, k) == SubSeq(q, Len(q) - k + 1, Len(q))

\* C13: scoreHistory is the last min(n, capacity) of the n combined scores
\* computed since the last reset, in arrival order, and once there is a
\* score avgScore is the mean of scoreHistory.
C13_HistoryWindow ==
  /\ statistics.scoreHistory = LastOf(scoreLog, Min(Len(scoreLog), Capacity))
  /\ scoreLog # << >> =>
       /\ statistics.avgScore.den = Len(statistics.scoreHistory)
       /\ statistics.avgScore.num = SumSeq(statistics.scoreHistory)

\* C13 witness: with a configured capacity, one more comparison than the
\* capacity has been made, the evicted first score differs from the
\* retained ones, and the average is over the retained ones only.
C13_Witness ==
  /\ options.historyLimit = SmallLimit
  /\ Len(scoreLog) = SmallLimit + 1
  /\ \A k \in 2..Len(scoreLog) : scoreLog[1] # scoreLog[k]
  /\ statistics.scoreHistory = Tail(scoreLog)
  /\ statistics.avgScore.num = SumSeq(Tail(scoreLog))

\* The scores of the comparisons since the last reset.
LoggedScores == {scoreLog[k] : k \in 1..Len(scoreLog)}

\* C14: maxScore is the maximum of 0 and the combined scores since the
\* last reset, minScore the minimum of 100 and those scores; a comparison
\* never lowers maxScore or raises minScore; resetStatistics leaves the
\* initial statistics (0, 0, 100, 0, empty).
C14_Extremes ==
  /\ [](/\ statistics.maxScore \in LoggedScores \cup {0}
        /\ \A v \in LoggedScores \cup {0} : statistics.maxScore >= v
        /\ statistics.minScore \in LoggedScores \cup {10000}
        /\ \A v \in LoggedScores \cup {10000} : statistics.minScore <= v)
  /\ [][ /\ scoreLog' # << >> =>
             /\ statistics'.maxScore >= statistics.maxScore
             /\ statistics'.minScore <= statistics.minScore
         /\ scoreLog' = << >> =>
             statistics' = [avgScore |-> [num |-> 0, den |-> 1],
                            maxScore |-> 0, minScore |-> 10000,
                            frameCount |-> 0, scoreHistory |-> << >>] ]_vars

\* C14 witness: the first score since the reset is the largest and has
\* been evicted from the history, and maxScore still is that score.
C14_Witness ==
  /\ options.historyLimit = SmallLimit
  /\ Len(scoreLog) = SmallLimit + 1
  /\ \A k \in 2..Len(scoreLog) : scoreLog[1] > scoreLog[k]
  /\ statistics.maxScore = scoreLog[1]
  /\ statistics.minScore < statistics.maxScore

\* A step of the hook counts a frame exactly when it is a tick that
\* supplies keypoints in both poses; any other tick keeps the statistics.
\* (A step that leaves the initial statistics is a reset or changes none.)
CountsFrames ==
  IF statistics' = InitialStats THEN TRUE
  ELSE IF BothKeypoints'
       THEN statistics'.frameCount = statistics.frameCount + 1
       ELSE statistics' = statistics

\* avgScore is within [0,100].
AvgInRange ==
  /\ statistics.avgScore.num >= 0
  /\ statistics.avgScore.num <= 10000 * statistics.avgScore.den

\* The sum of the weights a tick uses, in tenths.
WeightSum ==
  OrDefault(options.poseSimilarityWeight, DefaultPoseSimilarityWeight)
    + OrDefault(options.angleWeight, DefaultAngleWeight)

C16_ViewStateInRange ==
  /\ viewMode \in VIEW_MODES
  /\ 10 <= overlayOpacity /\ overlayOpacity <= 100

\* C16 witness: ArrowUp was pressed in overlay mode with the opacity
\* already at 1.0, and the opacity is 1.0.
C16_Witness ==
  /\ isLearningMode /\ viewMode = "overlay"
  /\ lastInput = Input("key", "ArrowUp")
  /\ overlayOpacity = 100

ViewState == <<viewMode, isSwitched, overlayOpacity>>

\* C17: an arrow key pressed while the mode is not overlay leaves opacity,
\* mode and switched unchanged; a mode button sets the mode and leaves
\* switched and opacity unchanged; the switch toggle flips switched and
\* leaves mode and opacity unchanged, whatever the mode.
C17_InputsChangeOwnPart ==
  [][ /\ ( /\ isLearningMode /\ viewMode # "overlay"
           /\ lastInput'.kind = "key"
           /\ lastInput'.arg \in {"ArrowUp", "ArrowDown"} )
         => UNCHANGED ViewState
      /\ lastInput'.kind = "mode"
         => /\ viewMode' = lastInput'.arg
            /\ UNCHANGED <<isSwitched, overlayOpacity>>
      /\ lastInput'.kind = "toggle"
         => /\ isSwitched' = ~isSwitched
            /\ UNCHANGED <<viewMode, overlayOpacity>> ]_vars

\* C17 witness: ArrowDown was pressed in side-by-side mode, switched, with
\* an opacity the slider had set to 0.5 earlier, and the opacity is still
\* 0.5.
C17_Witness ==
  /\ isLearningMode /\ viewMode = "sidebyside" /\ isSwitched
  /\ lastInput = Input("key", "ArrowDown")
  /\ overlayOpacity = 50

\* C18: while learning mode is mounted exactly one keydown handler of
\* learning mode is registered, the one of the current view mode; none is
\* registered while it is not mounted; and an Escape press while it is
\* mounted calls the exit callback exactly once.
C18_OneHandlerOneExit ==
  /\ [](IF isLearningMode
          THEN keyListeners = SetToBag({Handler(viewMode)})
          ELSE keyListeners = EmptyBag)
  /\ [][ (isLearningMode /\ lastInput' = Input("key", "Escape"))
           => exitCalls' = 1 ]_vars

\* C18 witness: Escape was pressed in a learning mode entered with clip 2
\* selected, the exit callback ran once, learning mode is unmounted and no
\* handler is registered.
C18_Witness ==
  /\ lastInput = Input("key", "Escape")
  /\ exitCalls = 1
  /\ ~isLearningMode /\ practiceClip = 2
  /\ keyListeners = EmptyBag

\* C19: a step that exits learning mode (Escape or the exit button) ends
\* with isLearningMode false and, when the editor shows the reference
\* video, with that video at the start of the clip that was selected when
\* learning mode was entered.
C19_ExitRestoresClipStart ==
  [][ (isLearningMode /\ exitCalls' > 0)
        => /\ isLearningMode' = FALSE
           /\ editorTime' # NoPlayer
                => editorTime' = GetCurrentStartClipTimeStamp(practiceClip)
    ]_vars

\* C19 witness: the exit button was pressed in a learning mode entered with
\* clip 2 selected, and the editor's video is at 5.0 s, the start of
\* clip 2.
C19_Witness ==
  /\ lastInput = Input("exitButton", "none")
  /\ ~isLearningMode /\ practiceClip = 2
  /\ editorTime = 50

\* C20: a fullscreenchange reporting an element inside the reference video
\* player ends with isLearningMode true, whether or not a clip is selected;
\* one reporting another element, or no fullscreen element, leaves
\* isLearningMode as it was.
C20_FullscreenForcesLearningMode ==
  [][ lastInput'.kind = "fullscreenchange"
        => IF lastInput'.arg = "player"
             THEN isLearningMode' = TRUE
             ELSE isLearningMode' = isLearningMode ]_vars

\* C20 witness: the fullscreenchange of the player was handled with no
\* clip selected, and learning mode is on.
C20_Witness ==
  /\ lastInput = Input("fullscreenchange", "player")
  /\ isLearningMode /\ currentClipId = 0 /\ practiceClip = 0

\* C21: after every mousemove of a PIP drag-resize the stored size
\* satisfies 120 <= height <= min(window height, 720) and
\* 0 < width <= min(window width, 960).
C21_PipSizeWithinBounds ==
  lastMove.moved =>
    /\ MinH <= pipSize.height
    /\ pipSize.height <= Min(windowSize[2], MaxPipHeight)
    /\ FracLess(Whole(0), pipSize.width)
    /\ ~FracLess(Whole(Min(windowSize[1], MaxPipWidth)), pipSize.width)

\* the normalized delta the last mousemove took its scale from
ChosenDelta == FracSub(Whole(1), lastMove.scale)

\* C22: the scale of a PIP resize is 1 minus the normalized delta of larger
\* magnitude: the delta it was taken from is at least as large in
\* magnitude as both dx/startW and dy/startH.
C22_ScaleFromLargerMagnitude ==
  lastMove.moved =>
    /\ ~FracLess(FracAbs(ChosenDelta),
                 FracAbs(NormDx(lastMove.dx, lastMove.startW)))
    /\ ~FracLess(FracAbs(ChosenDelta),
                 FracAbs(NormDy(lastMove.dy, lastMove.startH)))

\* C23: whenever the mounted hook has a webcam stream, every webcam video
\* element that is in the DOM (main and PIP) has that stream as its
\* srcObject, after any sequence of element removals and re-creations.
C23_ElementsShareStream ==
  (camMounted /\ webcamStream # 0) =>
    \A el \in {mainEl, pipEl} : el.present => el.srcObject = webcamStream

\* C23 witness: a second getUserMedia call (StrictMode's re-run of the init
\* effect) has replaced the stream, and both elements are in the DOM with
\* the second stream.
C23_Witness ==
  /\ camMounted /\ webcamStream = 2
  /\ mainEl.present /\ pipEl.present
  /\ mainEl.srcObject = 2 /\ pipEl.srcObject = 2

\* C24: once a send() call of the estimator has thrown, no processFrame
\* call invokes send() again: every frame processed from then on takes the
\* fallback branch, which draws the raw camera image.
C24_NoSendAfterThrow == sendThrew => lastFrame.kind # "send"

\* C24 witness: a send() call has thrown, and the last step processed a
\* frame of the mounted hook by drawing the raw image and requested the
\* next frame.
C24_Witness ==
  /\ sendThrew /\ mpMounted
  /\ lastFrame = FrameOutcome("raw", "raf")

\* C25: while the hook is mounted, every processFrame call ends with the
\* loop alive: it has requested its next animation frame or awaits the
\* estimator, also when handling the frame raised an exception.
C25_LoopAlwaysReschedules ==
  (mpMounted /\ lastFrame.kind # "none") => lastFrame.next # "none"

\* C27: at most one frame-processing loop has an animation frame
\* scheduled, and it belongs to the current run of the effect of a mounted
\* hook: no loop of a run that has been cleaned up iterates again.
C27_SingleLoop ==
  /\ Cardinality({ l \in loops : l.at = "raf" }) <= 1
  /\ \A l \in loops : l.at = "raf" => (l.current /\ mpMounted)

\* init() has ended without having been cancelled
EndedNotCancelled == initPhase \in {"done", "rejected"} /\ ~cancelled

\* C26: waitForLandmarks sends at most maxAttempts requests and none after
\* the effect was cancelled; after maxAttempts 202 responses it ends with
\* no landmarks; and whenever init() has ended without being cancelled,
\* isProcessingLandmarks is false and the page has left the loading
\* state.
C26_BoundedWait ==
  /\ requestsSent <= MaxAttempts
  /\ ~sentAfterCancel
  /\ attempt = MaxAttempts => (initPhase \in {"done", "cancelled"} /\ ~landmarks)
  /\ EndedNotCancelled => (~isProcessingLandmarks /\ ~pageIsLoading)

\* C28: learning mode is active only while a clip is selected: no
\* sequence of clip selections, button clicks and fullscreen events reaches
\* isLearningMode = true with currentClipId = 0.
C28_LearningModeNeedsClip == isLearningMode => currentClipId # 0

\* two clips of one row lie at least 1 unit apart
Apart(a, b) == a.end + 1 <= b.start \/ b.end + 1 <= a.start

SameRow(a, b) == a # b /\ clips[a].row = clips[b].row /\ clips[a].row >= 1

\* C29: after any sequence of clip additions, keyboard resize steps, drags
\* and deletions, no two clips of the same row (rows 1 and above) overlap
\* or lie closer than 1 unit to each other, and an operation whose addClip
\* finds no free row leaves the clip map unchanged.
C29_RowsKeepClipsApart ==
  /\ [](\A a, b \in DOMAIN clips : SameRow(a, b) => Apart(clips[a], clips[b]))
  /\ [][(lastClipOp'.kind # "none" /\ ~lastClipOp'.placed) => clips' = clips]_vars

\* C29 witness: two clips share a row and the last operation found no free
\* row
C29_Witness ==
  /\ lastClipOp.kind # "none" /\ ~lastClipOp.placed
  /\ \E a, b \in DOMAIN clips : SameRow(a, b)

\* a keyboard resize step: an arrow key on a rendered clip
KeyboardStep ==
  \E id \in DOMAIN clips, key \in ArrowKeys : HandleKeyDown(id, key)

\* C30: a keyboard resize step changes only the clip whose id was passed to
\* handleResize; every other clip keeps its row, start and end, whatever
\* id the counter nextClipId has assigned.
C30_ResizeStepChangesOnlyItsClip ==
  [][KeyboardStep =>
       \A id \in DOMAIN clips \ {resizeTarget} :
         id \in DOMAIN clips' /\ clips'[id] = clips[id]]_vars
====
